---- MODULE Spec2Model ----
(***************************************************************************)
(* Model of the extraction core of AI_rewriter (document_extractor.py):   *)
(* the body walk of DocumentExtractor._extract_from_docx, the formula      *)
(* extractor, the drawing resolver and the image validator.                *)
(*                                                                         *)
(* Text is a sequence of characters (one-character strings); a character   *)
(* outside ASCII is written by its code point, "U+03B1".                   *)
(***************************************************************************)
EXTENDS Integers, Sequences, FiniteSets, TLC

\* ------------------------------------------------------------------------
\* Python str operations, on sequences of characters
\* ------------------------------------------------------------------------

SetMin(S) == CHOOSE x \in S : \A y \in S : x <= y

\* str.find(sub, start): lowest 0-based index >= start where sub occurs, -1 if none
Find(text, sub, start) ==
    LET hits == {i \in start..(Len(text) - Len(sub)) :
                    SubSeq(text, i + 1, i + Len(sub)) = sub}
    IN  IF hits = {} THEN -1 ELSE SetMin(hits)

\* sub in text
Contains(text, sub) == Find(text, sub, 0) # -1

\* text.startswith(prefix)
StartsWith(text, prefix) ==
    /\ Len(prefix) <= Len(text)
    /\ SubSeq(text, 1, Len(prefix)) = prefix

\* text.replace(old, new), old non-empty: every non-overlapping occurrence,
\* left to right
RECURSIVE Replace(_, _, _)
Replace(text, old, new) ==
    LET p == Find(text, old, 0)
    IN  IF p = -1 THEN text
        ELSE SubSeq(text, 1, p) \o new
             \o Replace(SubSeq(text, p + Len(old) + 1, Len(text)), old, new)

Whitespace == {" ", "\t", "\n", "\r"}

\* text.strip()
Strip(text) ==
    LET keep == {i \in 1..Len(text) : text[i] \notin Whitespace}
    IN  IF keep = {} THEN <<>>
        ELSE SubSeq(text, SetMin(keep), CHOOSE i \in keep : \A j \in keep : j <= i)

DigitValue ==
    [c \in {"0", "1", "2", "3", "4", "5", "6", "7", "8", "9"} |->
        CASE c = "0" -> 0 [] c = "1" -> 1 [] c = "2" -> 2 [] c = "3" -> 3
          [] c = "4" -> 4 [] c = "5" -> 5 [] c = "6" -> 6 [] c = "7" -> 7
          [] c = "8" -> 8 [] c = "9" -> 9]

RECURSIVE DigitsValue(_)
DigitsValue(ds) ==
    IF ds = <<>> THEN 0
    ELSE 10 * DigitsValue(SubSeq(ds, 1, Len(ds) - 1)) + DigitValue[ds[Len(ds)]]

\* int(text): surrounding whitespace is dropped, then an optional sign and
\* one or more decimal digits; anything else raises ValueError (ok = FALSE)
IntParse(text) ==
    LET s      == Strip(text)
        signed == s # <<>> /\ s[1] \in {"+", "-"}
        ds     == IF signed THEN Tail(s) ELSE s
        okay   == ds # <<>> /\ \A i \in 1..Len(ds) : ds[i] \in DOMAIN DigitValue
    IN  IF ~okay THEN [ok |-> FALSE, value |-> 0]
        ELSE [ok |-> TRUE,
              value |-> IF signed /\ s[1] = "-" THEN 0 - DigitsValue(ds)
                        ELSE DigitsValue(ds)]

\* ------------------------------------------------------------------------
\* Formula extractor
\* ------------------------------------------------------------------------

\* _contains_latex_formula: the paired delimiters
latex_markers ==
    << << <<"\\", "b", "e", "g", "i", "n", "{", "e", "q", "u", "a", "t", "i", "o", "n", "}">>,
         <<"\\", "e", "n", "d", "{", "e", "q", "u", "a", "t", "i", "o", "n", "}">> >>,
       << <<"\\", "b", "e", "g", "i", "n", "{", "a", "l", "i", "g", "n", "}">>,
         <<"\\", "e", "n", "d", "{", "a", "l", "i", "g", "n", "}">> >>,
       << <<"\\", "[">>,
         <<"\\", "]">> >>,
       << <<"$", "$">>,
         <<"$", "$">> >>,
       << <<"$">>,
         <<"$">> >> >>

\* _contains_latex_formula: the command vocabulary
latex_commands ==
    << <<"\\", "f", "r", "a", "c">>,
       <<"\\", "s", "u", "m">>,
       <<"\\", "i", "n", "t">>,
       <<"\\", "p", "r", "o", "d">>,
       <<"\\", "a", "l", "p", "h", "a">>,
       <<"\\", "b", "e", "t", "a">>,
       <<"\\", "D", "e", "l", "t", "a">>,
       <<"\\", "p", "a", "r", "t", "i", "a", "l">>,
       <<"\\", "i", "n", "f", "t", "y">>,
       <<"\\", "i", "n">>,
       <<"\\", "s", "u", "b", "s", "e", "t">> >>

\* DocumentExtractor.math_symbols, in the order of the dict
math_symbols ==
    << << <<"U+03B1">>, <<"\\", "a", "l", "p", "h", "a">> >>,
       << <<"U+03B2">>, <<"\\", "b", "e", "t", "a">> >>,
       << <<"U+03B3">>, <<"\\", "g", "a", "m", "m", "a">> >>,
       << <<"U+03B4">>, <<"\\", "d", "e", "l", "t", "a">> >>,
       << <<"U+03B5">>, <<"\\", "e", "p", "s", "i", "l", "o", "n">> >>,
       << <<"U+03B6">>, <<"\\", "z", "e", "t", "a">> >>,
       << <<"U+03B7">>, <<"\\", "e", "t", "a">> >>,
       << <<"U+03B8">>, <<"\\", "t", "h", "e", "t", "a">> >>,
       << <<"U+03B9">>, <<"\\", "i", "o", "t", "a">> >>,
       << <<"U+03BA">>, <<"\\", "k", "a", "p", "p", "a">> >>,
       << <<"U+03BB">>, <<"\\", "l", "a", "m", "b", "d", "a">> >>,
       << <<"U+03BC">>, <<"\\", "m", "u">> >>,
       << <<"U+03BD">>, <<"\\", "n", "u">> >>,
       << <<"U+03BE">>, <<"\\", "x", "i">> >>,
       << <<"U+03BF">>, <<"o">> >>,
       << <<"U+03C0">>, <<"\\", "p", "i">> >>,
       << <<"U+03C1">>, <<"\\", "r", "h", "o">> >>,
       << <<"U+03C3">>, <<"\\", "s", "i", "g", "m", "a">> >>,
       << <<"U+03C4">>, <<"\\", "t", "a", "u">> >>,
       << <<"U+03C5">>, <<"\\", "u", "p", "s", "i", "l", "o", "n">> >>,
       << <<"U+03C6">>, <<"\\", "p", "h", "i">> >>,
       << <<"U+03C7">>, <<"\\", "c", "h", "i">> >>,
       << <<"U+03C8">>, <<"\\", "p", "s", "i">> >>,
       << <<"U+03C9">>, <<"\\", "o", "m", "e", "g", "a">> >>,
       << <<"U+00B1">>, <<"\\", "p", "m">> >>,
       << <<"U+00D7">>, <<"\\", "t", "i", "m", "e", "s">> >>,
       << <<"U+00F7">>, <<"\\", "d", "i", "v">> >>,
       << <<"U+2211">>, <<"\\", "s", "u", "m">> >>,
       << <<"U+220F">>, <<"\\", "p", "r", "o", "d">> >>,
       << <<"U+222B">>, <<"\\", "i", "n", "t">> >>,
       << <<"U+2202">>, <<"\\", "p", "a", "r", "t", "i", "a", "l">> >>,
       << <<"U+221E">>, <<"\\", "i", "n", "f", "t", "y">> >>,
       << <<"U+2260">>, <<"\\", "n", "e", "q">> >>,
       << <<"U+2264">>, <<"\\", "l", "e", "q">> >>,
       << <<"U+2265">>, <<"\\", "g", "e", "q">> >>,
       << <<"U+2248">>, <<"\\", "a", "p", "p", "r", "o", "x">> >> >>

\* a pair counted as found when both delimiters occur, in any order
MarkerPairAnyOrder(text, pair) ==
    Contains(text, pair[1]) /\ Contains(text, pair[2])

\* _contains_latex_formula, lines 265-270: one pair of delimiters. The closing
\* delimiter is searched from the end of the first opening delimiter on.
MarkerPairFound(text, pair) ==
    LET start     == pair[1]
        close     == pair[2]
        start_pos == Find(text, start, 0)
        end_pos   == Find(text, close, start_pos + Len(start))
    IN  /\ Contains(text, start)
        /\ Contains(text, close)
        /\ end_pos > start_pos

\* _contains_latex_formula, line 276: the commands that occur as substrings
CommandCount(text) ==
    Cardinality({i \in 1..Len(latex_commands) : Contains(text, latex_commands[i])})

\* DocumentExtractor._contains_latex_formula
ContainsLatexFormula(text) ==
    \/ \E i \in 1..Len(latex_markers) : MarkerPairFound(text, latex_markers[i])
    \/ CommandCount(text) >= 2

\* _extract_omml_formula, lines 310-311: every key of math_symbols is one
\* character and no replacement holds a key, so the replace() calls in the
\* order of the table come to one substitution per character
SymbolFor(c) ==
    LET hits == {k \in 1..Len(math_symbols) : math_symbols[k][1] = <<c>>}
    IN  IF hits = {} THEN <<c>> ELSE math_symbols[SetMin(hits)][2]

RECURSIVE ApplySymbols(_)
ApplySymbols(text) ==
    IF text = <<>> THEN <<>>
    ELSE SymbolFor(Head(text)) \o ApplySymbols(Tail(text))

\* DocumentExtractor._extract_omml_formula: mt is the concatenation of the
\* math node's m:t texts (line 307)
ExtractOmmlFormula(mt) == ApplySymbols(mt)

NoFormula == [found |-> FALSE, content |-> <<>>, formula_type |-> "none"]

\* ExtractFormula with the native detector finding nothing
ExtractFormulaTextOnly(el) ==
    IF ContainsLatexFormula(el.wt)
    THEN [found |-> TRUE, content |-> el.wt, formula_type |-> "latex"]
    ELSE NoFormula

\* DocumentExtractor._extract_formula. el.omath lists the m:oMath descendants
\* of the element in document order, each as the concatenation of its m:t
\* texts; find() takes the first. el.wt is the concatenation of the w:t texts.
ExtractFormula(el) ==
    LET has_math     == el.omath # <<>>
        formula_text == IF has_math THEN ExtractOmmlFormula(el.omath[1]) ELSE <<>>
    IN  IF has_math /\ formula_text # <<>>
        THEN [found |-> TRUE, content |-> formula_text, formula_type |-> "omml"]
        ELSE IF ContainsLatexFormula(el.wt)
        THEN [found |-> TRUE, content |-> el.wt, formula_type |-> "latex"]
        ELSE NoFormula

\* ------------------------------------------------------------------------
\* Drawing resolver and image validator
\* ------------------------------------------------------------------------

\* DocumentExtractor.image_formats
image_formats ==
    ("image/png" :> ".png") @@ ("image/jpeg" :> ".jpg") @@ ("image/jpg" :> ".jpg")
    @@ ("image/gif" :> ".gif") @@ ("image/bmp" :> ".bmp")
    @@ ("image/tiff" :> ".tiff") @@ ("image/x-emf" :> ".emf")
    @@ ("image/x-wmf" :> ".wmf") @@ ("image/x-pict" :> ".pict")

\* ExtensionOf with no extension for a type the table does not list
ExtensionOfNoDefault(content_type) ==
    IF content_type \in DOMAIN image_formats THEN image_formats[content_type]
    ELSE ""

\* self.image_formats.get(content_type, '.png')
ExtensionOf(content_type) ==
    IF content_type \in DOMAIN image_formats THEN image_formats[content_type]
    ELSE ".png"

\* A file holds the payload it was written with, or the PNG re-encoding of it.
\* A PNG encoding is never empty; the payload is as long as the blob.
FileNonEmpty(f) == f.holds = "reencoded" \/ f.payload_len > 0

\* DocumentExtractor._validate_and_fix_image. The blob's decode class says what
\* PIL does with it: "ok" verifies; "fixable" fails verify() and is re-encoded;
\* "bad" fails both, and the file stays as written.
ValidateAndFixImage(fs, image_path) ==
    LET f == fs[image_path]
    IN  IF f.decode = "ok" THEN [files |-> fs, valid |-> TRUE]
        ELSE IF f.decode = "fixable"
        THEN [files |-> [fs EXCEPT ![image_path] =
                            [holds |-> "reencoded", payload_len |-> f.payload_len,
                             decode |-> "ok"]],
              valid |-> TRUE]
        ELSE [files |-> fs, valid |-> FALSE]

\* Index of relationship id rid in the part's relationships, 0 if absent
RelIndex(part_rels, rid) ==
    LET hits == {k \in 1..Len(part_rels) : part_rels[k].id = rid}
    IN  IF hits = {} THEN 0 ELSE SetMin(hits)

\* _find_all_drawings: the wp:drawing/wp:inline then the wp:drawing/wp:anchor
\* descendants that hold a blip with an r:embed or r:link id. A drawing
\* records the namespace of its container: Word writes w:drawing, and the
\* path './/wp:drawing/wp:inline' matches only a container in namespace wp.
DrawingsOfType(el, drawing_type) ==
    LET hit(d) == /\ d.ns = "wp"
                  /\ d.kind = drawing_type
                  /\ d.blip
                  /\ (IF d.embed # "" THEN d.embed ELSE d.link) # ""
        info(d) == [rid |-> IF d.embed # "" THEN d.embed ELSE d.link,
                    position |-> drawing_type]
        RECURSIVE Collect(_)
        Collect(k) == IF k > Len(el.drawings) THEN <<>>
                      ELSE (IF hit(el.drawings[k]) THEN <<info(el.drawings[k])>>
                            ELSE <<>>) \o Collect(k + 1)
    IN  Collect(1)

FindAllDrawings(el) == DrawingsOfType(el, "inline") \o DrawingsOfType(el, "anchor")

\* _process_images, lines 346-376 (and 391-425, 435-463): the relationship's
\* payload is written under a fresh name, validated, and the image recorded.
\* unique_id stands for the first 8 characters of a uuid4: a name not yet used.
SaveImage(acc, rel, position, tier) ==
    LET content_type   == rel.content_type
        ext            == ExtensionOf(content_type)
        unique_id      == Cardinality(DOMAIN acc.files) + 1
        image_filename == <<"image_", unique_id, ext>>
        image_path     == <<"output/images", image_filename>>
        written        == (image_path :> [holds |-> "payload",
                                          payload_len |-> rel.blob_len,
                                          decode |-> rel.decode]) @@ acc.files
        checked        == ValidateAndFixImage(written, image_path)
        image_info     == [type |-> "image",
                           image_path |-> image_path,
                           image_filename |-> image_filename,
                           position_info |-> position,
                           file_size |-> rel.blob_len,
                           content_type |-> content_type]
    IN  [results        |-> Append(acc.results, image_info),
         processed_rids |-> acc.processed_rids \cup {rel.id},
         files          |-> checked.files,
         raised         |-> acc.raised,
         log            |-> Append(acc.log, [tier |-> tier, rid |-> rel.id,
                                             outcome |-> "saved",
                                             written |-> written[image_path]])]

\* An exception caught by the tier's except clause: logged, nothing recorded
LogError(acc, rid, tier) ==
    [acc EXCEPT !.log = Append(@, [tier |-> tier, rid |-> rid, outcome |-> "error"])]

\* An exception raised outside the per-image try blocks: the except clause of
\* line 467 logs it and the call returns what it has collected
LogOuterError(acc, tier) ==
    [acc EXCEPT !.raised = TRUE,
                !.log = Append(@, [tier |-> tier, rid |-> "", outcome |-> "outer"])]

\* rel.target_part raises for an external relationship
ResolveRel(acc, rel, position, tier) ==
    IF rel.external THEN LogError(acc, rel.id, tier)
    ELSE SaveImage(acc, rel, position, tier)

\* the modern tier without the test 'rid not in processed_rids'
RECURSIVE ModernTierNoSeen(_, _, _, _)
ModernTierNoSeen(acc, drawings, k, part_rels) ==
    IF k > Len(drawings) THEN acc
    ELSE LET rid == drawings[k].rid
             r   == RelIndex(part_rels, rid)
             nxt == IF rid = "" \/ r = 0 THEN acc
                    ELSE ResolveRel(acc, part_rels[r], drawings[k].position, "modern")
         IN  ModernTierNoSeen(nxt, drawings, k + 1, part_rels)

\* _process_images, lines 338-378: the modern tier, drawing k onwards
RECURSIVE ModernTier(_, _, _, _)
ModernTier(acc, drawings, k, part_rels) ==
    IF k > Len(drawings) THEN acc
    ELSE LET rid == drawings[k].rid
             r   == RelIndex(part_rels, rid)
             nxt == IF rid = "" \/ rid \in acc.processed_rids THEN acc
                    ELSE IF r = 0 THEN acc
                    ELSE ResolveRel(acc, part_rels[r], drawings[k].position, "modern")
         IN  ModernTier(nxt, drawings, k + 1, part_rels)

\* _process_images, lines 383-427: the legacy tier, shape k onwards. A shape
\* records whether it holds a v:imagedata and its r:id and o:relid attributes.
\* Line 387 reads o:relid only when r:id is missing or empty, and to read it
\* calls qn('o:relid'): the namespace map of docx.oxml.ns has no prefix o, so
\* qn raises KeyError, outside the try of line 389. The loop over the shapes
\* ends there.
RECURSIVE LegacyTier(_, _, _, _)
LegacyTier(acc, shapes, k, part_rels) ==
    IF k > Len(shapes) \/ acc.raised THEN acc
    ELSE LET shape == shapes[k]
             rid   == shape.r_id
             r     == RelIndex(part_rels, rid)
             nxt   == IF ~shape.imagedata THEN acc
                      ELSE IF rid = "" THEN LogOuterError(acc, "legacy")
                      ELSE IF rid \in acc.processed_rids THEN acc
                      ELSE IF r = 0 THEN LogError(acc, rid, "legacy")
                      ELSE ResolveRel(acc, part_rels[r], "shape", "legacy")
         IN  LegacyTier(nxt, shapes, k + 1, part_rels)

\* _process_images, lines 430-465: the scan of every image relationship of
\* the part, relationship k onwards
RECURSIVE FallbackTier(_, _, _)
FallbackTier(acc, part_rels, k) ==
    IF k > Len(part_rels) THEN acc
    ELSE LET rel == part_rels[k]
             nxt == IF rel.is_image /\ rel.id \notin acc.processed_rids
                    THEN ResolveRel(acc, rel, "unknown", "fallback")
                    ELSE acc
         IN  FallbackTier(nxt, part_rels, k + 1)

\* _process_images with every tier run whatever the earlier ones found
ProcessImagesEveryTier(el, part_rels, fs) ==
    LET start  == [results |-> <<>>, processed_rids |-> {}, files |-> fs, log |-> <<>>,
                   raised |-> FALSE]
        modern == ModernTier(start, FindAllDrawings(el), 1, part_rels)
        legacy == LegacyTier(modern, el.shapes, 1, part_rels)
    IN  IF legacy.raised THEN legacy ELSE FallbackTier(legacy, part_rels, 1)

\* DocumentExtractor._process_images on element el, whose part holds
\* part_rels, with fs the files of the output directory
ProcessImages(el, part_rels, fs) ==
    LET start  == [results |-> <<>>, processed_rids |-> {}, files |-> fs, log |-> <<>>,
                   raised |-> FALSE]
        modern == ModernTier(start, FindAllDrawings(el), 1, part_rels)
        legacy == IF modern.results = <<>>
                  THEN LegacyTier(modern, el.shapes, 1, part_rels)
                  ELSE modern
    IN  IF legacy.results = <<>> /\ ~legacy.raised
        THEN FallbackTier(legacy, part_rels, 1)
        ELSE legacy

\* ------------------------------------------------------------------------
\* Body walk: DocumentExtractor._extract_from_docx
\* ------------------------------------------------------------------------

VARIABLES
    body,            \* doc.element.body: its children, in order
    part_rels,       \* doc.part.rels: the relationships, in order
    iter_node,       \* body.iterchildren(): id of the child it yields next, 0 at the end
    pc,              \* "walk", "done" (returned) or "raised" (an exception left the walk)
    current_index,
    content_blocks,
    structure,       \* the returned structure, <<>> until the walk returns
    files,           \* the files of output/images: path -> what the file holds
    next_id,         \* id of the next element created
    steps            \* history: one record per body child the loop has handled

walk_vars == <<body, part_rels, iter_node, pc, current_index, content_blocks,
               structure, files, next_id, steps>>

\* One call of DocumentExtractor._process_images
VARIABLES
    img_el,          \* paragraph._element: the element the resolver is given
    img_rels,        \* paragraph.part.rels
    img_ret          \* <<>> before the call, then <<what the call came to>>

images_vars == <<img_el, img_rels, img_ret>>

\* The state of a part of the program while a specification leaves it alone
WalkIdle ==
    /\ body = <<>> /\ part_rels = <<>> /\ iter_node = 0 /\ pc = "idle"
    /\ current_index = 0 /\ content_blocks = <<>> /\ structure = <<>>
    /\ files = <<>> /\ next_id = 0 /\ steps = <<>>
ImagesIdle == img_el = <<>> /\ img_rels = <<>> /\ img_ret = <<>>

\* One call of DocumentExtractor.extract_content, up to the body walk
VARIABLES
    file_path,       \* the argument
    package_ok,      \* whether Document(file_path) can read the file
    call_pc,         \* "call", "extract", "opened", "walk"; "unsupported", "package_error"
    file_opened,     \* Document(file_path) has opened the file
    output_dir       \* output/images exists

call_vars == <<file_path, package_ok, call_pc, file_opened, output_dir>>
CallIdle ==
    /\ file_path = <<>> /\ package_ok = FALSE /\ call_pc = "idle"
    /\ file_opened = FALSE /\ output_dir = FALSE

\* One call of DocumentExtractor._contains_latex_formula
VARIABLES
    latex_text,      \* the argument
    latex_ret        \* <<>> before the call, then <<the value returned>>

latex_vars == <<latex_text, latex_ret>>
LatexIdle == latex_text = <<>> /\ latex_ret = <<>>

\* The rewrite stage of ContentRewriter.rewrite_content: one batch of text
\* blocks handed to the pool, then the save of the cache
VARIABLES
    api_type,        \* the argument of ContentRewriter.__init__
    text_blocks,     \* text_blocks[i] is block['content'] of the i-th text block
    original_texts,  \* the contents the batch started with
    cache,           \* self.cache
    cache_file,      \* the entries of output/cache/rewrite_cache.json
    tasks,           \* tasks[i]: the pool's call _process_text_block(block i)
    rewrite_pc,      \* where rewrite_content is
    before_save      \* <<>>, then <<self.cache as _save_cache found it>>

rewrite_vars == <<api_type, text_blocks, original_texts, cache, cache_file,
                  tasks, rewrite_pc, before_save>>
RewriteIdle ==
    /\ api_type = "" /\ text_blocks = <<>> /\ original_texts = <<>>
    /\ cache = <<>> /\ cache_file = <<>> /\ tasks = <<>>
    /\ rewrite_pc = "idle" /\ before_save = <<>>

\* One call of ContentRewriter._generate_markdown
VARIABLES
    md_blocks,         \* the argument blocks
    markdown_content,  \* the list of the same name; each piece also says
                       \* which block it renders
    copy_tasks,        \* the list of the same name
    copy_pending,      \* the copy tasks whose futures as_completed has not given yet
    md_pc,             \* where _generate_markdown is
    md_file            \* <<>>, then <<the text written to the .md file>>

markdown_vars == <<md_blocks, markdown_content, copy_tasks, copy_pending, md_pc, md_file>>
MarkdownIdle ==
    /\ md_blocks = <<>> /\ markdown_content = <<>> /\ copy_tasks = <<>>
    /\ copy_pending = {} /\ md_pc = "idle" /\ md_file = <<>>

\* One call of DocumentExtractor._validate_and_fix_image, statement by statement
VARIABLES
    fix_path,        \* the argument image_path
    fix_blob,        \* what PIL makes of the bytes written to image_path
    fix_files,       \* the files of the directory: path -> what the file holds
    fix_img,         \* img.mode of the image opened for the repair, "" before
    fix_pc,          \* where the call is
    fix_ret          \* <<>> before the return, then <<the value returned>>

validate_vars == <<fix_path, fix_blob, fix_files, fix_img, fix_pc, fix_ret>>
ValidateIdle ==
    /\ fix_path = <<>> /\ fix_blob = <<>> /\ fix_files = <<>>
    /\ fix_img = "" /\ fix_pc = "idle" /\ fix_ret = <<>>

\* One call of _extract_json_result of either API client
VARIABLES
    response_text,   \* the argument text
    extract_ret      \* <<>> before the call, then <<the client, the value returned>>

extract_vars == <<response_text, extract_ret>>
ExtractIdle == response_text = <<>> /\ extract_ret = <<>>

\* One run of ContentRewriter.rewrite_content: the batches and the progress
VARIABLES
    rc_blocks,         \* content['content_blocks']
    submissions,            \* how often each block was given to executor.submit
    futures,                \* the future of each block: "unsubmitted", "running",
                            \* then "returned" or "raised" once as_completed gave it
    batch_i,                \* the loop variable i of line 183
    processed_text_blocks,  \* the counter of the same name
    callbacks,              \* the calls of progress_callback, in order
    rc_done,                \* what was written: "docx", "markdown", "cache"
    rc_pc                   \* where rewrite_content is

batches_vars == <<rc_blocks, submissions, futures, batch_i,
                  processed_text_blocks, callbacks, rc_done, rc_pc>>
BatchesIdle ==
    /\ rc_blocks = <<>> /\ submissions = <<>> /\ futures = <<>>
    /\ batch_i = 0 /\ processed_text_blocks = 0 /\ callbacks = <<>>
    /\ rc_done = {} /\ rc_pc = "idle"

\* --- every variable, and what each specification leaves alone ---------
vars == <<walk_vars, images_vars, call_vars, latex_vars, rewrite_vars, markdown_vars, validate_vars, extract_vars, batches_vars>>

not_walk == <<images_vars, call_vars, latex_vars, rewrite_vars, markdown_vars, validate_vars, extract_vars, batches_vars>>
NotWalkIdle == ImagesIdle /\ CallIdle /\ LatexIdle /\ RewriteIdle /\ MarkdownIdle /\ ValidateIdle /\ ExtractIdle /\ BatchesIdle
not_images == <<walk_vars, call_vars, latex_vars, rewrite_vars, markdown_vars, validate_vars, extract_vars, batches_vars>>
NotImagesIdle == WalkIdle /\ CallIdle /\ LatexIdle /\ RewriteIdle /\ MarkdownIdle /\ ValidateIdle /\ ExtractIdle /\ BatchesIdle
not_call == <<walk_vars, images_vars, latex_vars, rewrite_vars, markdown_vars, validate_vars, extract_vars, batches_vars>>
NotCallIdle == WalkIdle /\ ImagesIdle /\ LatexIdle /\ RewriteIdle /\ MarkdownIdle /\ ValidateIdle /\ ExtractIdle /\ BatchesIdle
not_latex == <<walk_vars, images_vars, call_vars, rewrite_vars, markdown_vars, validate_vars, extract_vars, batches_vars>>
NotLatexIdle == WalkIdle /\ ImagesIdle /\ CallIdle /\ RewriteIdle /\ MarkdownIdle /\ ValidateIdle /\ ExtractIdle /\ BatchesIdle
not_rewrite == <<walk_vars, images_vars, call_vars, latex_vars, markdown_vars, validate_vars, extract_vars, batches_vars>>
NotRewriteIdle == WalkIdle /\ ImagesIdle /\ CallIdle /\ LatexIdle /\ MarkdownIdle /\ ValidateIdle /\ ExtractIdle /\ BatchesIdle
not_markdown == <<walk_vars, images_vars, call_vars, latex_vars, rewrite_vars, validate_vars, extract_vars, batches_vars>>
NotMarkdownIdle == WalkIdle /\ ImagesIdle /\ CallIdle /\ LatexIdle /\ RewriteIdle /\ ValidateIdle /\ ExtractIdle /\ BatchesIdle
not_validate == <<walk_vars, images_vars, call_vars, latex_vars, rewrite_vars, markdown_vars, extract_vars, batches_vars>>
NotValidateIdle == WalkIdle /\ ImagesIdle /\ CallIdle /\ LatexIdle /\ RewriteIdle /\ MarkdownIdle /\ ExtractIdle /\ BatchesIdle
not_extract == <<walk_vars, images_vars, call_vars, latex_vars, rewrite_vars, markdown_vars, validate_vars, batches_vars>>
NotExtractIdle == WalkIdle /\ ImagesIdle /\ CallIdle /\ LatexIdle /\ RewriteIdle /\ MarkdownIdle /\ ValidateIdle /\ BatchesIdle
not_batches == <<walk_vars, images_vars, call_vars, latex_vars, rewrite_vars, markdown_vars, validate_vars, extract_vars>>
NotBatchesIdle == WalkIdle /\ ImagesIdle /\ CallIdle /\ LatexIdle /\ RewriteIdle /\ MarkdownIdle /\ ValidateIdle /\ ExtractIdle
\* --- end of the variable groups ---------------------------------------

NoFormat == [style_name |-> <<>>]
NoImage  == [image_path |-> <<>>, image_filename |-> <<>>, position_info |-> "",
             file_size |-> 0, content_type |-> ""]

\* lines 130-135 (alignment, spacing and indent are copied and never read)
FormatInfo(paragraph) == [style_name |-> paragraph.style]

\* lines 162-167 and 170-175
TextBlock(paragraph, index) ==
    [type |-> "text", content |-> Strip(paragraph.wt), level |-> 0,
     formula_type |-> "", has_format |-> TRUE, format_info |-> FormatInfo(paragraph),
     image |-> NoImage, original_index |-> index]

\* lines 150-160
HeadingBlock(paragraph, level, index) ==
    [type |-> "heading", content |-> Strip(paragraph.wt), level |-> level,
     formula_type |-> "", has_format |-> TRUE, format_info |-> FormatInfo(paragraph),
     image |-> NoImage, original_index |-> index]

\* lines 122-124, 139-142 and 201-203: the dict of _extract_formula, tagged
FormulaBlock(formula, has_format, format_info, index) ==
    [type |-> "formula", content |-> formula.content, level |-> 0,
     formula_type |-> formula.formula_type, has_format |-> has_format,
     format_info |-> format_info, image |-> NoImage, original_index |-> index]

\* lines 116-118, 179-181: an image_info of _process_images, tagged
ImageBlock(image_info, index) ==
    [type |-> "image", content |-> <<>>, level |-> 0, formula_type |-> "",
     has_format |-> FALSE, format_info |-> NoFormat,
     image |-> [image_path |-> image_info.image_path,
                image_filename |-> image_info.image_filename,
                position_info |-> image_info.position_info,
                file_size |-> image_info.file_size,
                content_type |-> image_info.content_type],
     original_index |-> index]

\* ImageBlocks with each image tagged by its place in the list
ImageBlocksEnumerated(images, index) ==
    [k \in 1..Len(images) |-> ImageBlock(images[k], k - 1)]

\* the images of one _process_images call, all tagged with the same index
RECURSIVE ImageBlocks(_, _)
ImageBlocks(images, index) ==
    IF images = <<>> THEN <<>>
    ELSE <<ImageBlock(Head(images), index)>> \o ImageBlocks(Tail(images), index)

HeadingPrefix == <<"H", "e", "a", "d", "i", "n", "g">>
HeadingSpace == HeadingPrefix \o <<" ">>

\* ClassifyParagraph with a level of 1 where the suffix is no integer
ClassifyParagraphNoFallback(paragraph, index) ==
    IF StartsWith(paragraph.style, HeadingPrefix)
    THEN LET level == IntParse(Replace(paragraph.style, HeadingSpace, <<>>))
         IN  HeadingBlock(paragraph, IF level.ok THEN level.value ELSE 1, index)
    ELSE TextBlock(paragraph, index)

\* lines 147-175: the heading or text block of a paragraph
ClassifyParagraph(paragraph, index) ==
    IF StartsWith(paragraph.style, HeadingPrefix)
    THEN LET level == IntParse(Replace(paragraph.style, HeadingSpace, <<>>))
         IN  IF level.ok THEN HeadingBlock(paragraph, level.value, index)
             ELSE TextBlock(paragraph, index)
    ELSE TextBlock(paragraph, index)

\* StructureOf without the test of the block type
StructureOfAll(blocks) ==
    [k \in 1..Len(blocks) |-> [level |-> blocks[k].level, text |-> blocks[k].content]]

\* lines 209-213
RECURSIVE StructureOf(_)
StructureOf(blocks) ==
    IF blocks = <<>> THEN <<>>
    ELSE (IF Head(blocks).type = "heading"
          THEN <<[level |-> Head(blocks).level, text |-> Head(blocks).content]>>
          ELSE <<>>) \o StructureOf(Tail(blocks))

\* current_index += 1 (lines 126, 143, 183, 194, 204)
AdvanceIndex(index) == index + 1

\* lines 113-127: a paragraph whose text is empty or whitespace
EmptyParagraph(paragraph, index, rels, fs) ==
    LET images  == ProcessImages(paragraph, rels, fs)
        formula == ExtractFormula(paragraph)
    IN  [blocks  |-> ImageBlocks(images.results, index)
                     \o (IF formula.found
                         THEN <<FormulaBlock(formula, FALSE, NoFormat, index)>>
                         ELSE <<>>),
         files   |-> images.files,
         formula |-> formula.found,
         scanned |-> TRUE]

\* NonEmptyParagraph without the continue of line 144
NonEmptyParagraphFallThrough(paragraph, index, rels, fs) ==
    LET formula == ExtractFormula(paragraph)
        images  == ProcessImages(paragraph, rels, fs)
    IN  [blocks  |-> (IF formula.found
                      THEN <<FormulaBlock(formula, TRUE, FormatInfo(paragraph), index)>>
                      ELSE <<>>)
                     \o <<ClassifyParagraph(paragraph, index)>>
                     \o ImageBlocks(images.results, index),
         files   |-> images.files,
         formula |-> formula.found,
         scanned |-> TRUE]

\* lines 129-183: a paragraph with visible text. A formula ends the handling
\* of the paragraph (continue, line 144) before its images are looked for.
NonEmptyParagraph(paragraph, index, rels, fs) ==
    LET formula == ExtractFormula(paragraph)
        images  == ProcessImages(paragraph, rels, fs)
    IN  IF formula.found
        THEN [blocks  |-> <<FormulaBlock(formula, TRUE, FormatInfo(paragraph), index)>>,
              files   |-> fs,
              formula |-> TRUE,
              scanned |-> FALSE]
        ELSE [blocks  |-> <<ClassifyParagraph(paragraph, index)>>
                          \o ImageBlocks(images.results, index),
              files   |-> images.files,
              formula |-> FALSE,
              scanned |-> TRUE]

\* lines 191-194: the images of a standalone drawing, the index advanced
\* after each
RECURSIVE DrawingBlocks(_, _)
DrawingBlocks(images, index) ==
    IF images = <<>> THEN <<>>
    ELSE <<ImageBlock(Head(images), index)>>
         \o DrawingBlocks(Tail(images), AdvanceIndex(index))

\* index after DrawingBlocks
RECURSIVE IndexAfterDrawing(_, _)
IndexAfterDrawing(images, index) ==
    IF images = <<>> THEN index
    ELSE IndexAfterDrawing(Tail(images), AdvanceIndex(index))

\* --- the document tree -------------------------------------------------

Positions(b, id) == {k \in 1..Len(b) : b[k].id = id}
Node(b, id) == b[CHOOSE k \in Positions(b, id) : TRUE]

\* the element after child id among its siblings, 0 if it is the last: what
\* iterchildren() holds as its next element once it has yielded child id
NextSiblingId(b, id) ==
    LET k == CHOOSE j \in Positions(b, id) : TRUE
    IN  IF k = Len(b) THEN 0 ELSE b[k + 1].id

\* doc.paragraphs (line 110): the w:p children of the body, in order
Paragraphs(b) == SelectSeq(b, LAMBDA n : n.tag = "p")

Normal == <<"N", "o", "r", "m", "a", "l">>

\* doc.add_paragraph() (line 188): an empty paragraph of the default style,
\* inserted before the body's w:sectPr, at the end if there is none
AddParagraph(b, id) ==
    LET p    == [id |-> id, pos |-> -1, tag |-> "p", wt |-> <<>>, style |-> Normal,
                 omath |-> <<>>, drawings |-> <<>>, shapes |-> <<>>]
        sect == {k \in 1..Len(b) : b[k].tag = "sectPr"}
        at   == IF sect = {} THEN Len(b) + 1 ELSE SetMin(sect)
    IN  SubSeq(b, 1, at - 1) \o <<p>> \o SubSeq(b, at, Len(b))

\* getparent().remove(element) (line 196)
RemoveNode(b, id) == SelectSeq(b, LAMBDA n : n.id # id)

Step(element, paragraph_id, out_index, n_before, n_after, formula, scanned) ==
    [child |-> element.id, pos |-> element.pos, tag |-> element.tag,
     paragraph |-> paragraph_id,
     index_before |-> current_index, index_after |-> out_index,
     first |-> n_before + 1, last |-> n_after,
     formula |-> formula, scanned |-> scanned]

\* --- the loop body, one action per branch of lines 108-204 --------------

\* lines 108-183: a w:p child. The paragraph handled is
\* doc.paragraphs[current_index]; the lookup raises IndexError past the end.
WalkParagraph ==
    /\ pc = "walk"
    /\ iter_node # 0
    /\ LET element == Node(body, iter_node)
           paras   == Paragraphs(body)
       IN  /\ element.tag = "p"
           /\ iter_node' = NextSiblingId(body, iter_node)
           /\ UNCHANGED not_walk
           /\ IF current_index >= Len(paras)
              THEN /\ pc' = "raised"
                   /\ UNCHANGED <<body, part_rels, current_index, content_blocks,
                                  structure, files, next_id, steps>>
              ELSE LET paragraph == paras[current_index + 1]
                       out == IF Strip(paragraph.wt) = <<>>
                              THEN EmptyParagraph(paragraph, current_index, part_rels, files)
                              ELSE NonEmptyParagraph(paragraph, current_index, part_rels, files)
                   IN  /\ content_blocks' = content_blocks \o out.blocks
                       /\ files' = out.files
                       /\ current_index' = AdvanceIndex(current_index)
                       /\ steps' = Append(steps,
                              Step(element, paragraph.id, AdvanceIndex(current_index),
                                   Len(content_blocks),
                                   Len(content_blocks) + Len(out.blocks),
                                   out.formula, out.scanned))
                       /\ UNCHANGED <<body, part_rels, pc, structure, next_id>>

\* lines 185-196: a standalone drawing or pict child. The temporary paragraph
\* stays in the body: what line 196 removes is the element the paragraph
\* object was pointed at.
WalkDrawing ==
    /\ pc = "walk"
    /\ iter_node # 0
    /\ LET element == Node(body, iter_node)
           images  == ProcessImages(element, part_rels, files)
           after   == IndexAfterDrawing(images.results, current_index)
       IN  /\ element.tag \in {"drawing", "pict"}
           /\ iter_node' = NextSiblingId(body, iter_node)
           /\ body' = RemoveNode(AddParagraph(body, next_id), element.id)
           /\ next_id' = next_id + 1
           /\ content_blocks' = content_blocks
                                  \o DrawingBlocks(images.results, current_index)
           /\ files' = images.files
           /\ current_index' = after
           /\ steps' = Append(steps,
                  Step(element, 0, after, Len(content_blocks),
                       Len(content_blocks) + Len(images.results), FALSE, TRUE))
           /\ UNCHANGED <<part_rels, pc, structure>>
           /\ UNCHANGED not_walk

\* lines 198-204: a standalone oMath or oMathPara child
WalkFormula ==
    /\ pc = "walk"
    /\ iter_node # 0
    /\ LET element == Node(body, iter_node)
           formula == ExtractFormula(element)
           after   == IF formula.found THEN AdvanceIndex(current_index)
                      ELSE current_index
       IN  /\ element.tag \in {"oMath", "oMathPara"}
           /\ iter_node' = NextSiblingId(body, iter_node)
           /\ content_blocks' =
                  IF formula.found
                  THEN Append(content_blocks,
                              FormulaBlock(formula, FALSE, NoFormat, current_index))
                  ELSE content_blocks
           /\ current_index' = after
           /\ steps' = Append(steps,
                  Step(element, 0, after, Len(content_blocks),
                       Len(content_blocks) + (IF formula.found THEN 1 ELSE 0),
                       formula.found, FALSE))
           /\ UNCHANGED <<body, part_rels, pc, structure, files, next_id>>
           /\ UNCHANGED not_walk

\* any other child (w:tbl, w:sectPr, ...): no branch of lines 108-204 takes it
WalkOther ==
    /\ pc = "walk"
    /\ iter_node # 0
    /\ LET element == Node(body, iter_node)
       IN  /\ element.tag \notin {"p", "drawing", "pict", "oMath", "oMathPara"}
           /\ iter_node' = NextSiblingId(body, iter_node)
           /\ steps' = Append(steps,
                  Step(element, 0, current_index, Len(content_blocks),
                       Len(content_blocks), FALSE, FALSE))
           /\ UNCHANGED <<body, part_rels, pc, current_index, content_blocks,
                          structure, files, next_id>>
           /\ UNCHANGED not_walk

\* lines 206-218: the loop is over, the result is returned
Return ==
    /\ pc = "walk"
    /\ iter_node = 0
    /\ structure' = StructureOf(content_blocks)
    /\ pc' = "done"
    /\ UNCHANGED <<body, part_rels, iter_node, current_index, content_blocks,
                   files, next_id, steps>>
    /\ UNCHANGED not_walk

\* --- the documents walked ------------------------------------------------

MaxBody == 3

T_Intro == <<"I", "n", "t", "r", "o">>
T_Hello == <<"H", "e", "l", "l", "o", " ", "w", "o", "r", "l", "d", ".">>
T_Latex == <<"$", "x", "$">>
Heading1 == HeadingSpace \o <<"1">>
Heading2 == HeadingSpace \o <<"2">>
HeadingCustom == HeadingSpace \o <<"C", "u", "s", "t", "o", "m">>

Drawing(ns, kind, embed) ==
    [ns |-> ns, kind |-> kind, blip |-> TRUE, embed |-> embed, link |-> ""]
Shape(r_id) == [imagedata |-> TRUE, r_id |-> r_id, o_relid |-> "", style |-> ""]

\* An element as lines 104-204 read it: its tag; wt, the text of its w:t runs
\* (paragraph.text and the './/w:t' search of _extract_formula); the name of
\* its style; the text of each m:oMath below it; its drawing containers; its
\* VML shapes
Element(tag, wt, style, omath, drawings, shapes) ==
    [tag |-> tag, wt |-> wt, style |-> style, omath |-> omath,
     drawings |-> drawings, shapes |-> shapes]

\* The body children a document is made of: what lines 104-204 read of each
BodyChildren ==
    { Element("p", T_Intro, Heading2, <<>>, <<>>, <<>>),
      Element("p", T_Hello, Normal, <<>>, <<>>, <<>>),
      Element("p", T_Intro, HeadingCustom, <<>>, <<>>, <<>>),
      \* no text, an inline picture as Word writes it (w:drawing/wp:inline)
      Element("p", <<>>, Normal, <<>>, <<Drawing("w", "inline", "rId1")>>, <<>>),
      \* white space and nothing else
      Element("p", <<" ">>, Normal, <<>>, <<>>, <<>>),
      \* heading text and a math node that reads as the letter alpha
      Element("p", T_Intro, Heading1, << <<"U+03B1">> >>, <<>>, <<>>),
      \* heading text that reads $x$ and a math node that reads x
      Element("p", T_Latex, Heading2, << <<"x">> >>, <<>>, <<>>),
      \* heading text and a math node whose text runs are empty
      Element("p", T_Intro, Heading2, << <<>> >>, <<>>, <<>>),
      \* $x$ and an inline picture
      Element("p", T_Latex, Normal, <<>>, <<Drawing("wp", "inline", "rId1")>>, <<>>),
      \* standalone drawing holding two pictures
      Element("drawing", <<>>, <<>>, <<>>,
              <<Drawing("wp", "inline", "rId1"), Drawing("wp", "inline", "rId2")>>, <<>>),
      \* standalone oMathPara holding a math node
      Element("oMathPara", <<>>, <<>>, << <<"x">> >>, <<>>, <<>>),
      Element("tbl", <<>>, <<>>, <<>>, <<>>, <<>>) }

\* the section properties that end the body
SectPr == Element("sectPr", <<>>, <<>>, <<>>, <<>>, <<>>)

Rel(id, content_type, blob_len, decode) ==
    [id |-> id, is_image |-> TRUE, external |-> FALSE,
     content_type |-> content_type, blob_len |-> blob_len, decode |-> decode]

\* The relationships of the document part: none, one PNG, or a PNG and a
\* zero-length JPEG payload
PartRels ==
    { <<>>,
      <<Rel("rId1", "image/png", 3, "ok")>>,
      <<Rel("rId1", "image/png", 3, "ok"), Rel("rId2", "image/jpeg", 0, "bad")>> }

MakeNode(el, k) ==
    [id |-> k, pos |-> k - 1, tag |-> el.tag, wt |-> el.wt, style |-> el.style,
     omath |-> el.omath, drawings |-> el.drawings, shapes |-> el.shapes]

\* lines 84-101: the document is open, nothing is extracted yet
Init ==
    /\ \E n \in 0..MaxBody : \E kids \in [1..n -> BodyChildren] :
          body = [k \in 1..n |-> MakeNode(kids[k], k)] \o <<MakeNode(SectPr, n + 1)>>
    /\ part_rels \in PartRels
    /\ iter_node = IF body = <<>> THEN 0 ELSE body[1].id
    /\ pc = "walk"
    /\ current_index = 0
    /\ content_blocks = <<>>
    /\ structure = <<>>
    /\ files = <<>>
    /\ next_id = Len(body) + 1
    /\ steps = <<>>
    /\ NotWalkIdle

Next == WalkParagraph \/ WalkDrawing \/ WalkFormula \/ WalkOther \/ Return

Spec == Init /\ [][Next]_vars

\* ------------------------------------------------------------------------
\* One call of the drawing resolver, on its own
\* ------------------------------------------------------------------------

MaxRefs == 2

\* the relationship ids an element refers to: a PNG, an image of a type the
\* table does not list, an image linked from outside the package, an id the
\* part does not declare
RefIds == {"rId1", "rId2", "rId3", "rId9"}

\* v:imagedata carrying o:relid and no r:id
ShapeRelid(o_relid) == [Shape("") EXCEPT !.o_relid = o_relid]

SeqsUpTo(S, n) == UNION {[1..k -> S] : k \in 0..n}

\* The elements given to _process_images: a paragraph with up to MaxRefs
\* inline pictures and up to MaxRefs VML shapes
ImageElements ==
    {Element("p", <<>>, Normal, <<>>, ds, ss) :
        ds \in SeqsUpTo({Drawing("wp", "inline", r) : r \in RefIds}, MaxRefs),
        ss \in SeqsUpTo({Shape(r) : r \in RefIds} \cup {ShapeRelid("rId1")}, MaxRefs)}

\* The relationships of the part. rel.target_part raises for rId3, whose
\* target is outside the package; the styles part is no image.
ImageRels ==
    { <<Rel("rId1", "image/png", 3, "ok"),
        Rel("rId2", "image/webp", 2, "fixable"),
        [Rel("rId3", "image/png", 0, "bad") EXCEPT !.external = TRUE],
        [Rel("rId4", "", 0, "bad") EXCEPT !.is_image = FALSE]>>,
      <<Rel("rId2", "image/webp", 2, "fixable")>> }

ImagesInit ==
    /\ img_el \in ImageElements
    /\ img_rels \in ImageRels
    /\ img_ret = <<>>
    /\ NotImagesIdle

\* images = self._process_images(paragraph, output_dir, image_rels), into an
\* empty output directory
ProcessImagesCall ==
    /\ img_ret = <<>>
    /\ img_ret' = <<ProcessImages(img_el, img_rels, <<>>)>>
    /\ UNCHANGED <<img_el, img_rels>>
    /\ UNCHANGED not_images

\* the call for a second paragraph with the same references, into the
\* directory the first call left
ProcessImagesAgain ==
    /\ Len(img_ret) = 1
    /\ img_ret' = Append(img_ret, ProcessImages(img_el, img_rels, img_ret[1].files))
    /\ UNCHANGED <<img_el, img_rels>>
    /\ UNCHANGED not_images

ImagesNext == ProcessImagesCall \/ ProcessImagesAgain

SpecImages == ImagesInit /\ [][ImagesNext]_vars

\* ------------------------------------------------------------------------
\* DocumentExtractor.extract_content: the dispatch on the extension
\* ------------------------------------------------------------------------

\* str.rfind(c): highest 0-based index where character c occurs, -1 if none
RFind(text, c) ==
    LET hits == {i \in 0..(Len(text) - 1) : text[i + 1] = c}
    IN  IF hits = {} THEN -1 ELSE CHOOSE i \in hits : \A j \in hits : j <= i

\* os.path.splitext(p)[1]: from the last dot of the last path component on,
\* unless only dots come before it in the component
Splitext(p) ==
    LET sepIndex == RFind(p, "/")
        dotIndex == RFind(p, ".")
    IN  IF /\ dotIndex > sepIndex
           /\ \E i \in (sepIndex + 1)..(dotIndex - 1) : p[i + 1] # "."
        THEN SubSeq(p, dotIndex + 1, Len(p))
        ELSE <<>>

UpperCase == <<"A", "B", "C", "D", "E", "F", "G", "H", "I", "J", "K", "L", "M", "N", "O", "P", "Q", "R", "S", "T", "U", "V", "W", "X", "Y", "Z">>
LowerCase == <<"a", "b", "c", "d", "e", "f", "g", "h", "i", "j", "k", "l", "m", "n", "o", "p", "q", "r", "s", "t", "u", "v", "w", "x", "y", "z">>

\* str.lower(), on the ASCII letters
Lower(text) ==
    [i \in 1..Len(text) |->
        IF \E k \in 1..Len(UpperCase) : UpperCase[k] = text[i]
        THEN LowerCase[CHOOSE k \in 1..Len(UpperCase) : UpperCase[k] = text[i]]
        ELSE text[i]]

\* self.supported_formats, line 29; line 74 compares with the literal
DocxExt == <<".", "d", "o", "c", "x">>

PathStems == {<<"a">>, <<"d", "i", "r", ".", "v", "2", "/", "r", "e", "p", "o", "r", "t">>}
PathExts ==
    {<<".", "d", "o", "c", "x">>,
     <<".", "D", "O", "C", "X">>,
     <<".", "D", "o", "c", "x">>,
     <<".", "d", "o", "c">>,
     <<".", "d", "o", "c", "m">>,
     <<".", "t", "x", "t">>,
     <<".", "p", "d", "f">>,
     <<>>,
     <<".", "d", "o", "c", "x", ".", "b", "a", "k">>,
     <<".", "d", "o", "c", "x", " ">>,
     <<".">>,
     <<".", "d", ".", "d", "o", "c", "x">>}

\* the paths extract_content is called with
Paths == {stem \o ext : stem \in PathStems, ext \in PathExts} \cup {DocxExt}

CallInit ==
    /\ file_path \in Paths
    /\ package_ok \in BOOLEAN
    /\ call_pc = "call"
    /\ file_opened = FALSE
    /\ output_dir = FALSE
    /\ NotCallIdle

\* ExtractContent without the test of the extension
ExtractContentAnyFormat ==
    /\ call_pc = "call"
    /\ call_pc' = "extract"
    /\ UNCHANGED <<file_path, package_ok, file_opened, output_dir>>
    /\ UNCHANGED not_call

\* lines 73-77
ExtractContent ==
    /\ call_pc = "call"
    /\ call_pc' = IF Lower(Splitext(file_path)) = DocxExt THEN "extract"
                  ELSE "unsupported"
    /\ UNCHANGED <<file_path, package_ok, file_opened, output_dir>>
    /\ UNCHANGED not_call

\* line 84: Document(file_path) opens the file, and raises if it is no package
OpenDocument ==
    /\ call_pc = "extract"
    /\ file_opened' = TRUE
    /\ call_pc' = IF package_ok THEN "opened" ELSE "package_error"
    /\ UNCHANGED <<file_path, package_ok, output_dir>>
    /\ UNCHANGED not_call

\* lines 89-90: os.makedirs(output_dir, exist_ok=True); the walk comes next
MakeOutputDir ==
    /\ call_pc = "opened"
    /\ output_dir' = TRUE
    /\ call_pc' = "walk"
    /\ UNCHANGED <<file_path, package_ok, file_opened>>
    /\ UNCHANGED not_call

CallNext == ExtractContent \/ OpenDocument \/ MakeOutputDir

SpecCall == CallInit /\ [][CallNext]_vars

\* ------------------------------------------------------------------------
\* The text-marker detector, on its own
\* ------------------------------------------------------------------------

MaxPieces == 2

\* what the texts given to the detector are made of
LatexPieces ==
    {<<"\\", "f", "r", "a", "c">>,
     <<"\\", "a", "l", "p", "h", "a">>,
     <<"\\", "i", "n", "t">>,
     <<"\\", "i", "n", "f", "t", "y">>,
     <<"\\", "i", "n">>,
     <<"\\", "s", "u", "b", "s", "e", "t">>,
     <<"x">>,
     <<" ">>,
     <<"$">>,
     <<"\\", "[">>,
     <<"\\", "]">>}

RECURSIVE Concat(_)
Concat(ss) == IF ss = <<>> THEN <<>> ELSE Head(ss) \o Concat(Tail(ss))

LatexTexts == {Concat(ps) : ps \in SeqsUpTo(LatexPieces, MaxPieces)}

LatexInit ==
    /\ latex_text \in LatexTexts
    /\ latex_ret = <<>>
    /\ NotLatexIdle

\* self._contains_latex_formula(text_content), line 242
ContainsLatexFormulaCall ==
    /\ latex_ret = <<>>
    /\ latex_ret' = <<ContainsLatexFormula(latex_text)>>
    /\ UNCHANGED latex_text
    /\ UNCHANGED not_latex

LatexNext == ContainsLatexFormulaCall

SpecLatex == LatexInit /\ [][LatexNext]_vars

\* ------------------------------------------------------------------------
\* The rewrite stage of ContentRewriter.rewrite_content
\* ------------------------------------------------------------------------

MaxBlocks == 2

\* len(self.cache) > 1000 and [-1000:] in _save_cache
CacheLimit == 1000

\* TongYiAPI.__init__(max_retries=5), ZhipuAPI.__init__(max_retries=3)
max_retries == IF api_type = "tongyi" THEN 5 ELSE 3

\* --- ContentRewriter._contains_formula ----------------------------------

rewriter_latex_markers ==
    << <<"\\", "b", "e", "g", "i", "n", "{", "e", "q", "u", "a", "t", "i", "o", "n", "}">>,
       <<"\\", "e", "n", "d", "{", "e", "q", "u", "a", "t", "i", "o", "n", "}">>,
       <<"\\", "b", "e", "g", "i", "n", "{", "a", "l", "i", "g", "n", "}">>,
       <<"\\", "e", "n", "d", "{", "a", "l", "i", "g", "n", "}">>,
       <<"$">>,
       <<"\\", "f", "r", "a", "c">>,
       <<"\\", "s", "u", "m">>,
       <<"\\", "i", "n", "t">>,
       <<"\\", "a", "l", "p", "h", "a">>,
       <<"\\", "b", "e", "t", "a">>,
       <<"\\", "g", "a", "m", "m", "a">> >>

office_markers ==
    << <<"<", "m", ":", "o", "M", "a", "t", "h">>,
       <<"<", "m", ":", "r", ">">>,
       <<"<", "m", ":", "t", ">">>,
       <<"<", "m", ":", "f", ">">>,
       <<"<", "m", ":", "n", "u", "m", ">">>,
       <<"<", "m", ":", "d", "e", "n", ">">> >>

ContainsFormula(text) ==
    LET markers == rewriter_latex_markers \o office_markers
    IN  \E k \in 1..Len(markers) : Contains(text, markers[k])

\* --- self.cache ------------------------------------------------------------
\* A dict keeps its keys in the order they were first inserted. The entries
\* under keys that are no block's hash are never looked up, so they are not
\* told apart: `old` counts them, and they are the oldest of the dict;
\* `entries` are the others, oldest first.

\* hashlib.md5(text.encode('utf-8')).hexdigest(): the digest stands for the
\* text, no two texts of the model sharing one
GetTextHash(text) == <<"md5">> \o text

CacheOf(old, entries) == [old |-> old, entries |-> entries]
Entry(key, value) == [key |-> key, value |-> value]

CacheLen(c) == c.old + Len(c.entries)
HasKey(c, key) == \E n \in 1..Len(c.entries) : c.entries[n].key = key
CacheGet(c, key) ==
    c.entries[CHOOSE n \in 1..Len(c.entries) : c.entries[n].key = key].value

\* c[key] = value: a new key goes last, a known key keeps its place
CachePut(c, key, value) ==
    IF HasKey(c, key)
    THEN [c EXCEPT !.entries =
            [n \in 1..Len(@) |-> IF @[n].key = key THEN Entry(key, value) ELSE @[n]]]
    ELSE [c EXCEPT !.entries = Append(@, Entry(key, value))]

\* dict(list(c.items())[:n]), for n < len(c)
FirstItems(c, n) ==
    IF n <= c.old
    THEN CacheOf(n, <<>>)
    ELSE CacheOf(c.old, SubSeq(c.entries, 1, n - c.old))

\* dict(list(c.items())[-n:]), for n < len(c)
LastItems(c, n) ==
    LET dropped == CacheLen(c) - n
    IN  IF dropped <= c.old
        THEN CacheOf(c.old - dropped, c.entries)
        ELSE CacheOf(0, SubSeq(c.entries, dropped - c.old + 1, Len(c.entries)))

\* --- the batch ----------------------------------------------------------------

\* a paragraph of prose, an inline formula, a display formula in \[ \]
T_Display == <<"\\", "[", "x", "\\", "]">>
BlockTexts == {T_Hello, T_Latex, T_Display}

\* what _extract_json_result can extract from a response
R_Cached == <<"r", "0">>
Rewrites == {<<"r", "1">>, <<"r", "2">>}

\* how one attempt of rewrite_text can end other than by a rewrite: the call
\* raises; the response has no extractable, non-empty rewrite
FailedAttempts == {"exception", "unparsable"}

NewTask == [pc |-> "submitted", attempt |-> 0, ret |-> <<>>, via |-> ""]

\* rewrite_cache.json as an earlier run left it: _save_cache never writes
\* more than CacheLimit entries
SavedCaches ==
    {CacheOf(old, entries) :
        old \in {0, CacheLimit - 1, CacheLimit},
        entries \in {<<>>, <<Entry(GetTextHash(T_Hello), R_Cached)>>}}

RewriteInit ==
    /\ api_type \in {"tongyi", "zhipu"}
    /\ text_blocks \in SeqsUpTo(BlockTexts, MaxBlocks)
    /\ original_texts = text_blocks
    /\ cache_file \in {c \in SavedCaches : CacheLen(c) <= CacheLimit}
    /\ cache = cache_file
    /\ tasks = [i \in 1..Len(text_blocks) |-> NewTask]
    /\ rewrite_pc = "batch"
    /\ before_save = <<>>
    /\ NotRewriteIdle

Blocks == 1..Len(text_blocks)

Task(i, at, attempt, ret, via) ==
    [tasks EXCEPT ![i] = [pc |-> at, attempt |-> attempt, ret |-> ret, via |-> via]]

\* lines 281-286: the formula check; a formula is returned as it is
ProcessStart(i) ==
    /\ tasks[i].pc = "submitted"
    /\ tasks' = IF ContainsFormula(text_blocks[i])
                THEN Task(i, "done", 0, text_blocks[i], "formula")
                ELSE Task(i, "lookup", 0, <<>>, "")
    /\ UNCHANGED <<api_type, text_blocks, original_texts, cache, cache_file,
                   rewrite_pc, before_save>>
    /\ UNCHANGED not_rewrite

\* line 289: if text_hash in self.cache
ProcessLookup(i) ==
    /\ tasks[i].pc = "lookup"
    /\ tasks' = IF HasKey(cache, GetTextHash(text_blocks[i]))
                THEN Task(i, "hit", 0, <<>>, "")
                ELSE Task(i, "rewrite_text", 0, <<>>, "")
    /\ UNCHANGED <<api_type, text_blocks, original_texts, cache, cache_file,
                   rewrite_pc, before_save>>
    /\ UNCHANGED not_rewrite

\* line 291: return self.cache[text_hash]
ProcessHit(i) ==
    /\ tasks[i].pc = "hit"
    /\ tasks' = Task(i, "done", 0, CacheGet(cache, GetTextHash(text_blocks[i])), "cache")
    /\ UNCHANGED <<api_type, text_blocks, original_texts, cache, cache_file,
                   rewrite_pc, before_save>>
    /\ UNCHANGED not_rewrite

\* range(self.max_retries + 1)
AttemptsLeftAndOne(attempt) == attempt <= max_retries

\* for attempt in range(self.max_retries)
AttemptsLeft(attempt) == attempt < max_retries

\* One pass of the loop of rewrite_text (one API call). A rewrite is returned
\* at once; a failure goes to the next pass, and the pass after the last one
\* is `return text`. The text is not empty: the extractor makes no block of
\* an empty paragraph.
RewriteAttempt(i) ==
    /\ tasks[i].pc = "rewrite_text"
    /\ AttemptsLeft(tasks[i].attempt)
    /\ \/ \E result \in Rewrites :
            tasks' = Task(i, "store", 0, result, "rewrite")
       \/ \E failure \in FailedAttempts :
            tasks' = IF AttemptsLeft(tasks[i].attempt + 1)
                     THEN Task(i, "rewrite_text", tasks[i].attempt + 1, <<>>, "")
                     ELSE Task(i, "store", 0, text_blocks[i], "exhausted")
    /\ UNCHANGED <<api_type, text_blocks, original_texts, cache, cache_file,
                   rewrite_pc, before_save>>
    /\ UNCHANGED not_rewrite

\* lines 297-298: self.cache[text_hash] = result; return result
ProcessStore(i) ==
    /\ tasks[i].pc = "store"
    /\ cache' = CachePut(cache, GetTextHash(text_blocks[i]), tasks[i].ret)
    /\ tasks' = [tasks EXCEPT ![i].pc = "done"]
    /\ UNCHANGED <<api_type, text_blocks, original_texts, cache_file,
                   rewrite_pc, before_save>>
    /\ UNCHANGED not_rewrite

\* lines 202-205, in the order the futures complete:
\* block['content'] = future.result()
Collect(i) ==
    /\ rewrite_pc = "batch"
    /\ tasks[i].pc = "done"
    /\ text_blocks' = [text_blocks EXCEPT ![i] = tasks[i].ret]
    /\ tasks' = [tasks EXCEPT ![i].pc = "collected"]
    /\ UNCHANGED <<api_type, original_texts, cache, cache_file, rewrite_pc,
                   before_save>>
    /\ UNCHANGED not_rewrite

BatchDone == \A i \in Blocks : tasks[i].pc = "collected"

\* lines 241-258: _generate_docx raises (doc.save cannot write the file), and
\* rewrite_content is left before line 264
GenerationRaises ==
    /\ rewrite_pc = "batch"
    /\ BatchDone
    /\ rewrite_pc' = "raised"
    /\ UNCHANGED <<api_type, text_blocks, original_texts, cache, cache_file,
                   tasks, before_save>>
    /\ UNCHANGED not_rewrite

\* line 264: self._save_cache(). The file is written, or opening it fails
\* and the file stays as it was.
SaveCache ==
    /\ rewrite_pc = "batch"
    /\ BatchDone
    /\ before_save' = <<cache>>
    /\ cache' = IF CacheLen(cache) > CacheLimit
                THEN LastItems(cache, CacheLimit)
                ELSE cache
    /\ \E written \in BOOLEAN :
         cache_file' = IF written THEN cache' ELSE cache_file
    /\ rewrite_pc' = "saved"
    /\ UNCHANGED <<api_type, text_blocks, original_texts, tasks>>
    /\ UNCHANGED not_rewrite

RewriteNext ==
    \/ \E i \in Blocks : ProcessStart(i)
    \/ \E i \in Blocks : ProcessLookup(i)
    \/ \E i \in Blocks : ProcessHit(i)
    \/ \E i \in Blocks : RewriteAttempt(i)
    \/ \E i \in Blocks : ProcessStore(i)
    \/ \E i \in Blocks : Collect(i)
    \/ GenerationRaises
    \/ SaveCache

SpecRewrite == RewriteInit /\ [][RewriteNext]_vars

\* ------------------------------------------------------------------------
\* One call of ContentRewriter._generate_markdown
\* ------------------------------------------------------------------------

MaxMdBlocks == 3

\* the file name of the image block at position p: the extractor names every
\* image file apart
ImageFilename(p) ==
    <<"i", "m", "g">> \o <<<<"1", "2", "3", "4", "5", "6", "7", "8", "9">>[p]>>
        \o <<".", "p", "n", "g">>

\* the blocks of the final list, by type
MdBlock(type, p) ==
    [type |-> type,
     content |-> IF type = "text" THEN T_Hello
                 ELSE IF type = "heading" THEN T_Intro
                 ELSE IF type = "formula" THEN <<"x">>
                 ELSE <<>>,
     level |-> IF type = "heading" THEN 2 ELSE 0,
     image_filename |-> IF type = "image" THEN ImageFilename(p) ELSE <<>>]

BlockTypes == {"text", "heading", "formula", "image"}

MdBlockLists ==
    {[p \in 1..Len(types) |-> MdBlock(types[p], p)] :
        types \in SeqsUpTo(BlockTypes, MaxMdBlocks)}

\* '#' * level
RECURSIVE Hashes(_)
Hashes(level) == IF level <= 0 THEN <<>> ELSE <<"#">> \o Hashes(level - 1)

\* lines 446, 449, 453: what is appended for a text, a heading, a formula
RenderBlock(block) ==
    IF block.type = "text" THEN block.content \o <<"\n", "\n">>
    ELSE IF block.type = "heading"
    THEN Hashes(block.level) \o <<" ">> \o block.content \o <<"\n", "\n">>
    ELSE <<"\n", "$", "$">> \o block.content \o <<"$", "$", "\n", "\n">>

\* line 475: f"\n![{filename}](./images/{filename})\n\n"
ImageReference(filename) ==
    <<"\n", "!", "[">> \o filename
        \o <<"]", "(", ".", "/", "i", "m", "a", "g", "e", "s", "/">> \o filename
        \o <<")", "\n", "\n">>

Piece(text, p) == [text |-> text, block |-> p]

\* list.insert(index, x), index counted from 0: x goes before the element at
\* index, or last when the list is shorter
ListInsert(list, index, x) ==
    IF index >= Len(list)
    THEN Append(list, x)
    ELSE SubSeq(list, 1, index) \o <<x>> \o SubSeq(list, index + 1, Len(list))

\* lines 444-460 for the blocks from position p on
RECURSIVE RenderFrom(_, _, _)
RenderFrom(blocks, p, acc) ==
    IF p > Len(blocks) THEN acc
    ELSE IF blocks[p].type = "image"
    THEN RenderFrom(blocks, p + 1,
            [acc EXCEPT !.copy_tasks =
                Append(@, [filename |-> blocks[p].image_filename, block |-> p])])
    ELSE RenderFrom(blocks, p + 1,
            [acc EXCEPT !.markdown_content =
                Append(@, Piece(RenderBlock(blocks[p]), p))])

\* line 473: the index of the first copy task with this file name
TaskIndex(tasks_, filename) ==
    LET found == {n \in 1..Len(tasks_) : tasks_[n].filename = filename}
    IN  (CHOOSE n \in found : \A m \in found : n <= m) - 1

\* ''.join(markdown_content)
RECURSIVE JoinPieces(_)
JoinPieces(pieces) ==
    IF pieces = <<>> THEN <<>> ELSE Head(pieces).text \o JoinPieces(Tail(pieces))

MarkdownInit ==
    /\ md_blocks \in MdBlockLists
    /\ markdown_content = <<>>
    /\ copy_tasks = <<>>
    /\ copy_pending = {}
    /\ md_pc = "render"
    /\ md_file = <<>>
    /\ NotMarkdownIdle

\* lines 444-465: the loop over the blocks, then the copy tasks are submitted
RenderBlocks ==
    /\ md_pc = "render"
    /\ LET done == RenderFrom(md_blocks, 1, [markdown_content |-> <<>>, copy_tasks |-> <<>>])
       IN  /\ markdown_content' = done.markdown_content
           /\ copy_tasks' = done.copy_tasks
           /\ copy_pending' = 1..Len(done.copy_tasks)
    /\ md_pc' = "copy"
    /\ UNCHANGED <<md_blocks, md_file>>
    /\ UNCHANGED not_markdown

\* lines 467-480, for the future as_completed gives next: the copy succeeded
\* and the reference is inserted, or it failed and is only logged
CopyCompleted(k) ==
    /\ md_pc = "copy"
    /\ k \in copy_pending
    /\ \E success \in BOOLEAN :
         markdown_content' =
            IF success
            THEN ListInsert(markdown_content,
                            TaskIndex(copy_tasks, copy_tasks[k].filename),
                            Piece(ImageReference(copy_tasks[k].filename),
                                  copy_tasks[k].block))
            ELSE markdown_content
    /\ copy_pending' = copy_pending \ {k}
    /\ UNCHANGED <<md_blocks, copy_tasks, md_pc, md_file>>
    /\ UNCHANGED not_markdown

\* lines 483-489: the file is written, or writing fails and is logged
WriteMarkdown ==
    /\ md_pc = "copy"
    /\ copy_pending = {}
    /\ \E written \in BOOLEAN :
         md_file' = IF written THEN <<JoinPieces(markdown_content)>> ELSE <<>>
    /\ md_pc' = "returned"
    /\ UNCHANGED <<md_blocks, markdown_content, copy_tasks, copy_pending>>
    /\ UNCHANGED not_markdown

MarkdownNext ==
    \/ RenderBlocks
    \/ \E k \in 1..Len(copy_tasks) : CopyCompleted(k)
    \/ WriteMarkdown

SpecMarkdown == MarkdownInit /\ [][MarkdownNext]_vars

\* ------------------------------------------------------------------------
\* DocumentExtractor._validate_and_fix_image, statement by statement
\* ------------------------------------------------------------------------

\* os.path.splitext(p)[0]
SplitextRoot(p) == SubSeq(p, 1, Len(p) - Len(Splitext(p)))

\* a repair that writes the re-encoding over the image itself
NewPathInPlace(image_path) == image_path

\* line 498: new_path = f"{os.path.splitext(image_path)[0]}_fixed.png"
NewPath(image_path) ==
    SplitextRoot(image_path) \o <<"_", "f", "i", "x", "e", "d", ".", "p", "n", "g">>

\* image_path as _process_images makes it: image_<unique_id><ext> in the
\* output directory, ext one of the values of image_formats
ImagePaths ==
    {<<"o", "u", "t", "/", "i", "m", "a", "g", "e", "_", "1">> \o ext :
        ext \in {<<".", "p", "n", "g">>, <<".", "j", "p", "g">>, <<".", "e", "m", "f">>}}

\* img.mode of an opened image
Modes == {"RGB", "RGBA", "P", "CMYK"}

\* The bytes of a blob decide what PIL does with them: whether Image.open
\* recognises them, whether img.verify() accepts them, whether the pixel data
\* can be loaded, and the mode of the image. verify() is only reached, and the
\* pixels only loaded, on an image that opened.
Blobs ==
    {b \in [opens : BOOLEAN, verifies : BOOLEAN, loads : BOOLEAN, mode : Modes] :
        ~b.opens => (~b.verifies /\ ~b.loads /\ b.mode = "RGB")}

\* what a file holds: the bytes written by _process_images, the complete PNG
\* encoding of the image, or the beginning of that encoding
Payload == [holds |-> "payload"]
CompletePng == [holds |-> "reencoded"]
PartialPng == [holds |-> "partial"]

ValidateInit ==
    /\ fix_path \in ImagePaths
    /\ fix_blob \in Blobs
    /\ fix_files = (fix_path :> Payload)
    /\ fix_img = ""
    /\ fix_pc = "verify"
    /\ fix_ret = <<>>
    /\ NotValidateIdle

\* lines 481-488: Image.open and img.verify(); an exception of either goes
\* to the handler, which starts the repair
Verify ==
    /\ fix_pc = "verify"
    /\ IF fix_blob.opens /\ fix_blob.verifies
       THEN fix_pc' = "returned" /\ fix_ret' = <<TRUE>>
       ELSE fix_pc' = "repair" /\ fix_ret' = fix_ret
    /\ UNCHANGED <<fix_path, fix_blob, fix_files, fix_img>>
    /\ UNCHANGED not_validate

\* lines 492-495: Image.open for the repair, and img.convert('RGB') unless the
\* mode is RGB or RGBA; convert loads the pixel data. An exception of either
\* is caught at line 505.
OpenAndConvert ==
    /\ fix_pc = "repair"
    /\ IF ~fix_blob.opens
       THEN fix_pc' = "returned" /\ fix_ret' = <<FALSE>> /\ fix_img' = fix_img
       ELSE IF fix_blob.mode \notin {"RGB", "RGBA"}
       THEN IF fix_blob.loads
            THEN fix_pc' = "save" /\ fix_ret' = fix_ret /\ fix_img' = "RGB"
            ELSE fix_pc' = "returned" /\ fix_ret' = <<FALSE>> /\ fix_img' = fix_blob.mode
       ELSE fix_pc' = "save" /\ fix_ret' = fix_ret /\ fix_img' = fix_blob.mode
    /\ UNCHANGED <<fix_path, fix_blob, fix_files>>
    /\ UNCHANGED not_validate

\* line 499, img.save(new_path, format='PNG'), up to the creation of the
\* file: save loads the pixel data, then opens new_path for writing
SaveOpens ==
    /\ fix_pc = "save"
    /\ IF fix_blob.loads
       THEN /\ fix_files' = (NewPath(fix_path) :> PartialPng) @@ fix_files
            /\ fix_pc' = "saving"
            /\ fix_ret' = fix_ret
       ELSE /\ fix_files' = fix_files
            /\ fix_pc' = "returned"
            /\ fix_ret' = <<FALSE>>
    /\ UNCHANGED <<fix_path, fix_blob, fix_img>>
    /\ UNCHANGED not_validate

\* the files without the one at path
WithoutFile(fs, path) == [p \in DOMAIN fs \ {path} |-> fs[p]]

\* line 499, the rest: the encoding is written out, or the write raises and
\* what was written stays in the directory or is removed by save
SaveWrites ==
    /\ fix_pc = "saving"
    /\ \/ /\ fix_files' = [fix_files EXCEPT ![NewPath(fix_path)] = CompletePng]
          /\ fix_pc' = "replace"
          /\ fix_ret' = fix_ret
       \/ /\ \E removed \in BOOLEAN :
               fix_files' = IF removed /\ NewPath(fix_path) # fix_path
                            THEN WithoutFile(fix_files, NewPath(fix_path))
                            ELSE fix_files
          /\ fix_pc' = "returned"
          /\ fix_ret' = <<FALSE>>
    /\ UNCHANGED <<fix_path, fix_blob, fix_img>>
    /\ UNCHANGED not_validate

\* lines 502-504: os.replace(new_path, image_path) renames in one step, or
\* raises and renames nothing (the image is still open at this point, which
\* some systems refuse)
ReplaceFile ==
    /\ fix_pc = "replace"
    /\ \/ /\ fix_files' = (fix_path :> fix_files[NewPath(fix_path)])
                          @@ WithoutFile(fix_files, NewPath(fix_path))
          /\ fix_ret' = <<TRUE>>
       \/ /\ fix_files' = fix_files
          /\ fix_ret' = <<FALSE>>
    /\ fix_pc' = "returned"
    /\ UNCHANGED <<fix_path, fix_blob, fix_img>>
    /\ UNCHANGED not_validate

ValidateNext == Verify \/ OpenAndConvert \/ SaveOpens \/ SaveWrites \/ ReplaceFile

SpecValidate == ValidateInit /\ [][ValidateNext]_vars

\* ------------------------------------------------------------------------
\* TongYiAPI._extract_json_result and ZhipuAPI._extract_json_result
\* ------------------------------------------------------------------------

MaxResponse == 5

\* the expected key
ResultKey == <<"U+91CD", "U+5199", "U+7ED3", "U+679C">>

\* Python values: None, a str, a dict (its items in order)
None == [kind |-> "None"]
Str(s) == [kind |-> "str", s |-> s]
Dict(items) == [kind |-> "dict", items |-> items]

\* text.endswith(suffix)
EndsWith(text, suffix) ==
    /\ Len(suffix) <= Len(text)
    /\ SubSeq(text, Len(text) - Len(suffix) + 1, Len(text)) = suffix

\* text[start:end], 0 <= start and 0 <= end
Slice(text, start, end) ==
    IF start >= end \/ start >= Len(text) THEN <<>>
    ELSE SubSeq(text, start + 1, IF end > Len(text) THEN Len(text) ELSE end)

\* --- json.loads --------------------------------------------------------------
\* The texts of the model are made of braces, colons, double quotes, letters
\* and whitespace; the JSON documents among them are strings without escapes
\* and objects of at most one member. Positions are 1-based.

\* first position from i on that holds no whitespace, Len(text) + 1 if none
SkipWs(text, i) ==
    LET rest == {j \in i..Len(text) : text[j] \notin Whitespace}
    IN  IF rest = {} THEN Len(text) + 1 ELSE SetMin(rest)

NoValue == [ok |-> FALSE, value |-> None, next |-> 0]

\* a string literal whose opening quote is at i; a control character in it is
\* an error
ScanString(text, i) ==
    LET closing == {j \in (i + 1)..Len(text) : text[j] = "\""}
    IN  IF closing = {} THEN NoValue
        ELSE LET j == SetMin(closing)
                 s == SubSeq(text, i + 1, j - 1)
             IN  IF \E n \in 1..Len(s) : s[n] \in {"\n", "\t", "\r"} THEN NoValue
                 ELSE [ok |-> TRUE, value |-> Str(s), next |-> j + 1]

\* the value that starts at i
RECURSIVE ScanOnce(_, _)
ScanOnce(text, i) ==
    IF i > Len(text) THEN NoValue
    ELSE IF text[i] = "\"" THEN ScanString(text, i)
    ELSE IF text[i] # "{" THEN NoValue
    ELSE LET k == SkipWs(text, i + 1)
         IN  IF k > Len(text) THEN NoValue
             ELSE IF text[k] = "}"
             THEN [ok |-> TRUE, value |-> Dict(<<>>), next |-> k + 1]
             ELSE IF text[k] # "\"" THEN NoValue
             ELSE LET key == ScanString(text, k)
                      c   == SkipWs(text, key.next)
                  IN  IF ~key.ok \/ c > Len(text) THEN NoValue
                      ELSE IF text[c] # ":" THEN NoValue
                      ELSE LET v == ScanOnce(text, SkipWs(text, c + 1))
                               e == SkipWs(text, v.next)
                           IN  IF ~v.ok \/ e > Len(text) THEN NoValue
                               ELSE IF text[e] # "}" THEN NoValue
                               ELSE [ok |-> TRUE,
                                     value |-> Dict(<<[key |-> key.value.s,
                                                       value |-> v.value]>>),
                                     next |-> e + 1]

\* json.loads(text): ok is FALSE where it raises
JsonLoads(text) ==
    LET r == ScanOnce(text, SkipWs(text, 1))
    IN  IF r.ok /\ SkipWs(text, r.next) > Len(text) THEN r ELSE NoValue

\* "重写结果" in data: a key of a dict, a substring of a str
KeyIn(data) ==
    IF data.kind = "dict"
    THEN \E n \in 1..Len(data.items) : data.items[n].key = ResultKey
    ELSE Contains(data.s, ResultKey)

\* what a strategy comes to: it returns a value, or raises, or neither
Returns(value) == [returned |-> TRUE, raised |-> FALSE, value |-> value]
Raises == [returned |-> FALSE, raised |-> TRUE, value |-> None]
Nothing == [returned |-> FALSE, raised |-> FALSE, value |-> None]

\* data = json.loads(text); if "重写结果" in data: return data["重写结果"]
\* (subscripting a str by a str raises TypeError)
LoadAndLookUp(text) ==
    LET r == JsonLoads(text)
    IN  IF ~r.ok THEN Raises
        ELSE IF ~KeyIn(r.value) THEN Nothing
        ELSE IF r.value.kind = "str" THEN Raises
        ELSE Returns(r.value.items[CHOOSE n \in 1..Len(r.value.items) :
                                       r.value.items[n].key = ResultKey].value)

\* --- TongYiAPI._extract_json_result ------------------------------------------

\* three backquotes; "U+0060" is the backquote character
Fence == <<"U+0060", "U+0060", "U+0060">>

\* lines 60-63: text.strip(), and without its first and last line if it starts
\* and ends with a fence
Unfenced(text) ==
    LET t      == Strip(text)
        first  == Find(t, <<"\n">>, 0)
        last   == RFind(t, "\n")
    IN  IF StartsWith(t, Fence) /\ EndsWith(t, Fence)
        THEN (IF first = last THEN <<>> ELSE Slice(t, first + 1, last))
        ELSE t

\* lines 72-81: the text between the first { and the last }
SubstringParse(text) ==
    LET start == Find(text, <<"{">>, 0)
        end   == RFind(text, "}")
    IN  IF start # -1 /\ end # -1
        THEN LET r == LoadAndLookUp(Slice(text, start, end + 1))
             IN  IF r.returned THEN r ELSE Nothing
        ELSE Nothing

\* lines 66-81: the direct parse, and the substring only when that raised
DirectThenSubstring(text) ==
    LET direct == LoadAndLookUp(text)
    IN  IF direct.raised THEN SubstringParse(text) ELSE direct

NoMatch == [ok |-> FALSE, group |-> <<>>]

\* q 重写结果 q \s* : \s* q at position k: the position of the last quote, 0 if
\* the text does not continue so
KeyColonQuote(text, k, q) ==
    LET quoted == <<q>> \o ResultKey \o <<q>>
        colon  == SkipWs(text, k + Len(quoted))
        open   == SkipWs(text, colon + 1)
    IN  IF Slice(text, k - 1, k + Len(quoted) - 1) # quoted THEN 0
        ELSE IF colon > Len(text) \/ open > Len(text) THEN 0
        ELSE IF text[colon] = ":" /\ text[open] = q THEN open ELSE 0

\* whether q \s* \} stands at position j
QuoteBrace(text, j, q) ==
    /\ j <= Len(text)
    /\ text[j] = q
    /\ SkipWs(text, j + 1) <= Len(text)
    /\ text[SkipWs(text, j + 1)] = "}"

\* the patterns \{\s*q重写结果q\s*:\s*q([^q]*?)q\s*\} matched at the brace at
\* p (the texts hold no backslash, on which the first two patterns differ
\* from these)
StrictMatchAt(text, p, q) ==
    LET open    == KeyColonQuote(text, SkipWs(text, p + 1), q)
        closing == {j \in (open + 1)..Len(text) : text[j] = q}
    IN  IF text[p] # "{" \/ open = 0 \/ closing = {} THEN NoMatch
        ELSE IF QuoteBrace(text, SetMin(closing), q)
        THEN [ok |-> TRUE, group |-> SubSeq(text, open + 1, SetMin(closing) - 1)]
        ELSE NoMatch

\* the patterns \{[^{]*?q重写结果q\s*:\s*q(.*?)q\s*\} matched at the brace at p
LooseMatchAt(text, p, q) ==
    LET closings(k) == {j \in (KeyColonQuote(text, k, q) + 1)..Len(text) :
                           QuoteBrace(text, j, q)}
        keys == {k \in (p + 1)..Len(text) :
                    /\ \A n \in (p + 1)..(k - 1) : text[n] # "{"
                    /\ KeyColonQuote(text, k, q) # 0
                    /\ closings(k) # {}}
    IN  IF text[p] # "{" \/ keys = {} THEN NoMatch
        ELSE LET k == SetMin(keys)
             IN  [ok |-> TRUE,
                  group |-> SubSeq(text, KeyColonQuote(text, k, q) + 1,
                                   SetMin(closings(k)) - 1)]

\* lines 91-109
json_patterns ==
    << [loose |-> FALSE, quote |-> "\""], [loose |-> FALSE, quote |-> "'"],
       [loose |-> FALSE, quote |-> "\""], [loose |-> FALSE, quote |-> "'"],
       [loose |-> TRUE, quote |-> "\""], [loose |-> TRUE, quote |-> "'"] >>

MatchAt(text, p, pattern) ==
    IF pattern.loose THEN LooseMatchAt(text, p, pattern.quote)
    ELSE StrictMatchAt(text, p, pattern.quote)

\* lines 111-120: the first pattern, and in the text the first match of it,
\* whose group is not empty. A match with an empty group holds no second
\* brace, so every match is found from its own brace.
RegexStage(text) ==
    LET hits(n) == {p \in 1..Len(text) :
                       /\ MatchAt(text, p, json_patterns[n]).ok
                       /\ MatchAt(text, p, json_patterns[n]).group # <<>>}
        found == {n \in 1..Len(json_patterns) : hits(n) # {}}
    IN  IF found = {} THEN Nothing
        ELSE Returns(Str(MatchAt(text, SetMin(hits(SetMin(found))),
                                 json_patterns[SetMin(found)]).group))

\* lines 123-132
BasicExtraction(text) ==
    LET quoted == <<"\"">> \o ResultKey \o <<"\"">>
        start0 == Find(text, quoted, 0) + Len(quoted)
        start  == Find(text, <<"\"">>, start0) + 1
        end    == Find(text, <<"\"">>, start)
    IN  IF start0 # -1 /\ start # -1 /\ end # -1
        THEN Returns(Str(Slice(text, start, end)))
        ELSE Nothing

TongYiExtract(text) ==
    LET t      == Unfenced(text)
        first  == DirectThenSubstring(t)
        second == RegexStage(t)
        third  == BasicExtraction(t)
    IN  IF first.returned THEN first.value
        ELSE IF second.returned THEN second.value
        ELSE IF third.returned THEN third.value
        ELSE None

\* --- ZhipuAPI._extract_json_result -------------------------------------------

\* the matches of \{[^{}]*\}, in order
BraceGroups(text) ==
    LET braces(p) == {j \in (p + 1)..Len(text) : text[j] \in {"{", "}"}}
        RECURSIVE From(_)
        From(p) ==
            IF p > Len(text) THEN <<>>
            ELSE IF text[p] = "{" /\ braces(p) # {} /\ text[SetMin(braces(p) \cup {Len(text)})] = "}"
            THEN <<SubSeq(text, p, SetMin(braces(p)))>> \o From(SetMin(braces(p)) + 1)
            ELSE From(p + 1)
    IN  From(1)

ZhipuExtract(text) ==
    LET direct == LoadAndLookUp(text)
        groups == BraceGroups(text)
        found  == {n \in 1..Len(groups) : LoadAndLookUp(groups[n]).returned}
    IN  IF direct.returned THEN direct.value
        ELSE IF found = {} THEN None
        ELSE LoadAndLookUp(groups[SetMin(found)]).value

\* --- the calls ---------------------------------------------------------------

\* the pieces a response of the model is made of
ResponsePieces ==
    { <<"{">>, <<"}">>, <<":">>, <<"\"">> \o ResultKey \o <<"\"">>,
      <<"\"", "a", "\"">>, <<"a", " ">> }

\* a response, as it is or in a fenced block
ExtractInit ==
    /\ \E pieces \in SeqsUpTo(ResponsePieces, MaxResponse), fenced \in BOOLEAN :
         response_text =
            IF fenced
            THEN Fence \o <<"j", "s", "o", "n", "\n">> \o Concat(pieces) \o <<"\n">> \o Fence
            ELSE Concat(pieces)
    /\ extract_ret = <<>>
    /\ NotExtractIdle

TongYiExtractJsonResult ==
    /\ extract_ret = <<>>
    /\ extract_ret' = <<"tongyi", TongYiExtract(response_text)>>
    /\ UNCHANGED response_text
    /\ UNCHANGED not_extract

ZhipuExtractJsonResult ==
    /\ extract_ret = <<>>
    /\ extract_ret' = <<"zhipu", ZhipuExtract(response_text)>>
    /\ UNCHANGED response_text
    /\ UNCHANGED not_extract

ExtractNext == TongYiExtractJsonResult \/ ZhipuExtractJsonResult

SpecExtract == ExtractInit /\ [][ExtractNext]_vars

\* ------------------------------------------------------------------------
\* ContentRewriter.rewrite_content: the batches and the progress callbacks
\* ------------------------------------------------------------------------

MaxTextBlocks == 11

\* self.batch_size
batch_size == 10

\* self.progress_weights, in the order of the dict
progress_weights ==
    << [stage |-> "init", weight |-> 2],
       [stage |-> "extraction", weight |-> 15],
       [stage |-> "rewrite", weight |-> 60],
       [stage |-> "process_non_text", weight |-> 5],
       [stage |-> "generate_docx", weight |-> 8],
       [stage |-> "generate_markdown", weight |-> 7],
       [stage |-> "finalize", weight |-> 3] >>

StageIndex(stage) ==
    CHOOSE n \in 1..Len(progress_weights) : progress_weights[n].stage = stage

RECURSIVE WeightsBefore(_)
WeightsBefore(n) ==
    IF n <= 1 THEN 0 ELSE WeightsBefore(n - 1) + progress_weights[n - 1].weight

\* a progress that starts every stage from nothing
AccumulatedWeightNone(stage) == 0

\* lines 120-124: the weights of the stages before this one
AccumulatedWeight(stage) == WeightsBefore(StageIndex(stage))

\* lines 127-131, for stage_progress = num / den: the int() of a sum that is
\* not negative is its floor
TotalProgress(stage, num, den) ==
    LET total_progress ==
            (AccumulatedWeight(stage) * den
               + progress_weights[StageIndex(stage)].weight * num) \div den
    IN  IF total_progress > 100 THEN 100
        ELSE IF total_progress < 0 THEN 0
        ELSE total_progress

\* _update_progress with a callback: one more call of it
UpdateProgress(calls, stage, num, den) ==
    Append(calls, [stage |-> stage, total_progress |-> TotalProgress(stage, num, den)])

\* max(1, count)
AtLeastOne(count) == IF count < 1 THEN 1 ELSE count

\* --- the blocks --------------------------------------------------------------

Original(p) == <<"original", p>>
Returned(p) == <<"returned", p>>

\* a document of n text blocks between a heading, an image and a formula
Layout(n) ==
    [p \in 1..(n + 3) |->
        [type |-> IF p = 1 THEN "heading"
                  ELSE IF p = n + 3 THEN "formula"
                  ELSE IF p = (IF n = 0 THEN 2 ELSE 3) THEN "image"
                  ELSE "text",
         content |-> Original(p)]]

\* line 174: text_blocks, as positions in content_blocks; line 220: the others
TextBlocks == {p \in 1..Len(rc_blocks) : rc_blocks[p].type = "text"}
NonTextBlocks == {p \in 1..Len(rc_blocks) : rc_blocks[p].type # "text"}

\* the 0-based index in text_blocks of the text block at position p
TextIndex(p) == Cardinality({q \in 1..(p - 1) : rc_blocks[q].type = "text"})

\* batches that share a block with the batch before
BatchOverlapping(i) ==
    {p \in TextBlocks : TextIndex(p) >= i - 1 /\ TextIndex(p) < i + batch_size}

\* line 184: text_blocks[i:i+self.batch_size]
Batch(i) ==
    {p \in TextBlocks : TextIndex(p) >= i /\ TextIndex(p) < i + batch_size}

BatchesInit ==
    /\ \E n \in 0..MaxTextBlocks : rc_blocks = Layout(n)
    /\ submissions = [p \in 1..Len(rc_blocks) |-> 0]
    /\ futures = [p \in 1..Len(rc_blocks) |-> "unsubmitted"]
    /\ batch_i = 0
    /\ processed_text_blocks = 0
    /\ callbacks = <<>>
    /\ rc_done = {}
    /\ rc_pc = "start"
    /\ NotBatchesIdle

\* lines 149-180: up to the first update of the rewrite stage; extract_content
\* raises for a file it cannot read
StartRun ==
    /\ rc_pc = "start"
    /\ \/ /\ callbacks' =
               UpdateProgress(
                 UpdateProgress(
                   UpdateProgress(
                     UpdateProgress(
                       UpdateProgress(callbacks, "init", 1, 2),
                       "init", 1, 1),
                     "extraction", 1, 10),
                   "extraction", 1, 1),
                 "rewrite", 0, 1)
          /\ rc_pc' = "loop"
       \/ /\ callbacks' =
               UpdateProgress(
                 UpdateProgress(
                   UpdateProgress(callbacks, "init", 1, 2),
                   "init", 1, 1),
                 "extraction", 1, 10)
          /\ rc_pc' = "raised"
    /\ UNCHANGED <<rc_blocks, submissions, futures, batch_i,
                   processed_text_blocks, rc_done>>
    /\ UNCHANGED not_batches

\* lines 183-199: the next batch is announced and its blocks are submitted
BatchStart ==
    /\ rc_pc = "loop"
    /\ batch_i < Cardinality(TextBlocks)
    /\ callbacks' = UpdateProgress(callbacks, "rewrite", processed_text_blocks,
                                   AtLeastOne(Cardinality(TextBlocks)))
    /\ LET batch == Batch(batch_i)
       IN  /\ submissions' = [p \in DOMAIN submissions |->
                                 IF p \in batch THEN submissions[p] + 1
                                 ELSE submissions[p]]
           /\ futures' = [p \in DOMAIN futures |->
                             IF p \in batch THEN "running" ELSE futures[p]]
    /\ rc_pc' = "batch"
    /\ UNCHANGED <<rc_blocks, batch_i, processed_text_blocks, rc_done>>
    /\ UNCHANGED not_batches

\* lines 202-213: as_completed gives the future of block p; its result
\* becomes the content and is counted and reported, or result() raises and
\* the error is logged
FutureCompleted(p) ==
    /\ rc_pc = "batch"
    /\ futures[p] = "running"
    /\ \/ /\ futures' = [futures EXCEPT ![p] = "returned"]
          /\ rc_blocks' = [rc_blocks EXCEPT ![p].content = Returned(p)]
          /\ processed_text_blocks' = processed_text_blocks + 1
          /\ callbacks' = UpdateProgress(callbacks, "rewrite", processed_text_blocks + 1,
                                         AtLeastOne(Cardinality(TextBlocks)))
       \/ /\ futures' = [futures EXCEPT ![p] = "raised"]
          /\ UNCHANGED <<rc_blocks, processed_text_blocks, callbacks>>
    /\ UNCHANGED <<submissions, batch_i, rc_done, rc_pc>>
    /\ UNCHANGED not_batches

\* the loop of line 202 ends when every future was given, and the executor
\* is left: the next i
BatchEnd ==
    /\ rc_pc = "batch"
    /\ \A p \in DOMAIN futures : futures[p] # "running"
    /\ batch_i' = batch_i + batch_size
    /\ rc_pc' = "loop"
    /\ UNCHANGED <<rc_blocks, submissions, futures, processed_text_blocks,
                   callbacks, rc_done>>
    /\ UNCHANGED not_batches

\* lines 216-239: the end of the rewrite stage, the stage of the other
\* blocks (which _process_non_text_block leaves as they are), and the start
\* of the generation
AfterBatches ==
    /\ rc_pc = "loop"
    /\ batch_i >= Cardinality(TextBlocks)
    /\ LET non_text_count == Cardinality(NonTextBlocks)
           each == [i \in 1..non_text_count |->
                      [stage |-> "process_non_text",
                       total_progress |-> TotalProgress("process_non_text", i,
                                                        AtLeastOne(non_text_count))]]
       IN  callbacks' =
             UpdateProgress(
               UpdateProgress(
                 UpdateProgress(
                   UpdateProgress(callbacks, "rewrite", 1, 1),
                   "process_non_text", 0, 1) \o each,
                 "process_non_text", 1, 1),
               "generate_docx", 0, 1)
    /\ rc_pc' = "generate_docx"
    /\ UNCHANGED <<rc_blocks, submissions, futures, batch_i,
                   processed_text_blocks, rc_done>>
    /\ UNCHANGED not_batches

\* lines 244-251: _generate_docx saves the document, or doc.save raises and
\* rewrite_content is left
GenerateDocx ==
    /\ rc_pc = "generate_docx"
    /\ \/ /\ rc_done' = rc_done \cup {"docx"}
          /\ callbacks' = UpdateProgress(
                            UpdateProgress(callbacks, "generate_docx", 1, 1),
                            "generate_markdown", 0, 1)
          /\ rc_pc' = "generate_markdown"
       \/ /\ rc_pc' = "raised"
          /\ UNCHANGED <<rc_done, callbacks>>
    /\ UNCHANGED <<rc_blocks, submissions, futures, batch_i,
                   processed_text_blocks>>
    /\ UNCHANGED not_batches

\* lines 254-261: _generate_markdown writes the file, or logs that it could
\* not (lines 484-489) and returns all the same
GenerateMarkdown ==
    /\ rc_pc = "generate_markdown"
    /\ \E written \in BOOLEAN :
         rc_done' = IF written THEN rc_done \cup {"markdown"} ELSE rc_done
    /\ callbacks' = UpdateProgress(
                      UpdateProgress(callbacks, "generate_markdown", 1, 1),
                      "finalize", 0, 1)
    /\ rc_pc' = "finalize"
    /\ UNCHANGED <<rc_blocks, submissions, futures, batch_i,
                   processed_text_blocks>>
    /\ UNCHANGED not_batches

\* lines 264-273: _save_cache writes the file, or logs that it could not
\* (lines 95-96); then the last update
Finalize ==
    /\ rc_pc = "finalize"
    /\ \E written \in BOOLEAN :
         rc_done' = IF written THEN rc_done \cup {"cache"} ELSE rc_done
    /\ callbacks' = UpdateProgress(callbacks, "finalize", 1, 1)
    /\ rc_pc' = "returned"
    /\ UNCHANGED <<rc_blocks, submissions, futures, batch_i,
                   processed_text_blocks>>
    /\ UNCHANGED not_batches

BatchesNext ==
    \/ StartRun
    \/ BatchStart
    \/ \E p \in DOMAIN futures : FutureCompleted(p)
    \/ BatchEnd
    \/ AfterBatches
    \/ GenerateDocx
    \/ GenerateMarkdown
    \/ Finalize

SpecBatches == BatchesInit /\ [][BatchesNext]_vars

\* ------------------------------------------------------------------------
\* Properties of the body walk
\* ------------------------------------------------------------------------

\* the positions in content_blocks of the blocks step s appended, by type
Emitted(s) == s.first..s.last
EmittedOfType(s, type) == {j \in Emitted(s) : content_blocks[j].type = type}

\* the steps that handled a paragraph, and the paragraph each classified:
\* doc.paragraphs[current_index], which the properties of the classifier are
\* stated about
ParagraphSteps == {k \in 1..Len(steps) : steps[k].tag = "p"}
ParagraphOf(s) == Node(body, s.paragraph)
HasVisibleText(p) == Strip(p.wt) # <<>>
HasImageReference(p) == p.drawings # <<>> \/ p.shapes # <<>>
OnePng == <<Rel("rId1", "image/png", 3, "ok")>>

\* C1: current_index advances exactly once per body child of the document,
\* and every block carries the zero-based position of the child it came from
\* (so the blocks of one child share one index).
C1_IndexIsChildPosition ==
    \A k \in 1..Len(steps) :
        LET s == steps[k]
        IN  s.pos >= 0 =>
              /\ s.index_after = s.index_before + 1
              /\ \A j \in Emitted(s) : content_blocks[j].original_index = s.pos

\* C2: original_index never decreases along content_blocks.
C2_IndexNonDecreasing ==
    \A i, j \in 1..Len(content_blocks) :
        i < j => content_blocks[i].original_index <= content_blocks[j].original_index

\* C2 witness: a returned walk whose blocks carry three different indexes
C2_Witness ==
    /\ pc = "done"
    /\ Cardinality({content_blocks[j].original_index : j \in 1..Len(content_blocks)}) >= 3

\* the document of the end-to-end scenario: a 'Heading 2' paragraph, a text
\* paragraph, an empty paragraph holding an inline PNG, the section properties
ScenarioBody ==
    << MakeNode(Element("p", T_Intro, Heading2, <<>>, <<>>, <<>>), 1),
       MakeNode(Element("p", T_Hello, Normal, <<>>, <<>>, <<>>), 2),
       MakeNode(Element("p", <<>>, Normal, <<>>,
                        <<Drawing("w", "inline", "rId1")>>, <<>>), 3),
       MakeNode(SectPr, 4) >>

C3_ScenarioResult ==
    (pc = "done" /\ body = ScenarioBody /\ part_rels = OnePng) =>
        /\ structure = <<[level |-> 2, text |-> T_Intro]>>
        /\ Len(content_blocks) = 3
        /\ [j \in 1..3 |-> content_blocks[j].type] = <<"heading", "text", "image">>
        /\ [j \in 1..3 |-> content_blocks[j].original_index] = <<0, 1, 2>>
        /\ content_blocks[1].level = 2
        /\ content_blocks[1].content = T_Intro
        /\ content_blocks[2].content = T_Hello
        /\ content_blocks[3].image.content_type = "image/png"

\* C3: the end-to-end scenario extracts to [Heading 0, Text 1, Image 2] with
\* the heading as structure, and a paragraph with visible text and no image
\* reference of its own yields one block and no Image block.
C3_EndToEnd ==
    /\ C3_ScenarioResult
    /\ \A k \in ParagraphSteps :
          LET s == steps[k]
              p == ParagraphOf(s)
          IN  (HasVisibleText(p) /\ ~HasImageReference(p)) =>
                /\ Cardinality(Emitted(s)) = 1
                /\ EmittedOfType(s, "image") = {}

\* C4: a paragraph with no visible text, no image reference and no formula
\* yields no block and advances current_index by one.
C4_EmptyParagraphSkipped ==
    \A k \in ParagraphSteps :
        LET s == steps[k]
            p == ParagraphOf(s)
        IN  (~HasVisibleText(p) /\ ~HasImageReference(p) /\ ~ExtractFormula(p).found) =>
              /\ Emitted(s) = {}
              /\ s.index_after = s.index_before + 1

\* C5: a body child yields at most one Formula block, and a paragraph in
\* which the formula extractor detects a formula (the step's recorded result
\* of _extract_formula) leaves no Text or Heading block under its index.
C5_FormulaExcludesText ==
    \A k \in 1..Len(steps) :
        LET s == steps[k]
        IN  /\ Cardinality(EmittedOfType(s, "formula")) <= 1
            /\ (s.tag = "p" /\ s.formula) =>
                  \A j \in 1..Len(content_blocks) :
                      content_blocks[j].original_index = s.index_before =>
                          content_blocks[j].type \notin {"text", "heading"}

\* C5 witness: a paragraph with visible text and a formula was handled, and
\* its Formula block is in the result
C5_Witness ==
    \E k \in ParagraphSteps :
        /\ steps[k].formula
        /\ HasVisibleText(ParagraphOf(steps[k]))
        /\ EmittedOfType(steps[k], "formula") # {}

\* the paragraphs of C6: a native math node, a heading style, visible text
MathHeadingSteps ==
    {k \in ParagraphSteps :
        LET p == ParagraphOf(steps[k])
        IN  p.omath # <<>> /\ StartsWith(p.style, HeadingPrefix) /\ HasVisibleText(p)}

NativeFormulaOnly(s) ==
    /\ Cardinality(EmittedOfType(s, "formula")) = 1
    /\ \A j \in EmittedOfType(s, "formula") : content_blocks[j].formula_type = "omml"
    /\ EmittedOfType(s, "heading") = {}

C7_ImagesAlwaysScanned ==
    \A k \in ParagraphSteps :
        LET s == steps[k]
            p == ParagraphOf(s)
        IN  HasVisibleText(p) =>
              /\ Cardinality(EmittedOfType(s, "image"))
                    = Len(ProcessImages(p, part_rels, <<>>).results)
              /\ \A j \in EmittedOfType(s, "image") :
                    content_blocks[j].original_index = s.index_before

HeadingPositions == {j \in 1..Len(content_blocks) : content_blocks[j].type = "heading"}

\* C8: the returned structure is the Heading blocks of content_blocks, in
\* their order, each as {level, text}.
C8_StructureIsHeadings ==
    pc = "done" =>
        /\ Len(structure) = Cardinality(HeadingPositions)
        /\ \A j \in HeadingPositions :
              structure[Cardinality({i \in HeadingPositions : i <= j})]
                 = [level |-> content_blocks[j].level, text |-> content_blocks[j].content]

\* C8 witness: a result with two headings and a block of another type
C8_Witness ==
    /\ pc = "done"
    /\ Len(structure) >= 2
    /\ Len(content_blocks) > Len(structure)

\* what follows 'Heading ' in a style name
SuffixAfterHeading(style) ==
    IF StartsWith(style, HeadingSpace)
    THEN SubSeq(style, Len(HeadingSpace) + 1, Len(style))
    ELSE style

HeadingStyleSteps ==
    {k \in ParagraphSteps :
        LET p == ParagraphOf(steps[k])
        IN  /\ StartsWith(p.style, HeadingPrefix)
            /\ HasVisibleText(p)
            /\ ~ExtractFormula(p).found}

\* C9: a classified paragraph with visible text, no formula and a style name
\* starting with 'Heading' yields one Heading block of level N when the suffix parses
\* as the integer N, and one Text block with the trimmed text when it does not.
C9_HeadingOrText ==
    \A k \in HeadingStyleSteps :
        LET s == steps[k]
            p == ParagraphOf(s)
            n == IntParse(SuffixAfterHeading(p.style))
        IN  IF n.ok
            THEN /\ EmittedOfType(s, "text") = {}
                 /\ Cardinality(EmittedOfType(s, "heading")) = 1
                 /\ \A j \in EmittedOfType(s, "heading") : content_blocks[j].level = n.value
            ELSE /\ EmittedOfType(s, "heading") = {}
                 /\ Cardinality(EmittedOfType(s, "text")) = 1
                 /\ \A j \in EmittedOfType(s, "text") :
                       content_blocks[j].content = Strip(p.wt)

\* C9 witness: a 'Heading 2' paragraph became a level 2 heading and a
\* 'Heading Custom' paragraph became text
C9_Witness ==
    /\ \E k \in HeadingStyleSteps :
          /\ ParagraphOf(steps[k]).style = Heading2
          /\ \E j \in EmittedOfType(steps[k], "heading") : content_blocks[j].level = 2
    /\ \E k \in HeadingStyleSteps :
          /\ ParagraphOf(steps[k]).style = HeadingCustom
          /\ EmittedOfType(steps[k], "text") # {}

\* C10: the file of every Image block in the result exists and is not empty.
C10_ImageFileNonEmpty ==
    \A j \in 1..Len(content_blocks) :
        content_blocks[j].type = "image" =>
            /\ content_blocks[j].image.image_path \in DOMAIN files
            /\ FileNonEmpty(files[content_blocks[j].image.image_path])

\* C11: the body walk never raises: whatever the sequence of body children,
\* _extract_from_docx runs to its return.
C11_WalkNeverRaises == pc # "raised"

\* ------------------------------------------------------------------------
\* Properties of one drawing resolver call
\* ------------------------------------------------------------------------

\* the log entries of the images the call saved, in the order of its results
SavedEntries(ret) == SelectSeq(ret.log, LAMBDA e : e.outcome = "saved")
LoggedRids(ret, outcome) ==
    {ret.log[k].rid : k \in {i \in 1..Len(ret.log) : ret.log[i].outcome = outcome}}

\* a reference the part can resolve: the id is declared and the target is a
\* part of the package
Resolvable(rid) ==
    /\ RelIndex(img_rels, rid) # 0
    /\ ~img_rels[RelIndex(img_rels, rid)].external

\* the ids the element refers to, by tier
ModernRefs == {d.rid : d \in {FindAllDrawings(img_el)[k] : k \in 1..Len(FindAllDrawings(img_el))}}
LegacyRefs ==
    {IF s.r_id # "" THEN s.r_id ELSE s.o_relid :
        s \in {img_el.shapes[k] : k \in {i \in 1..Len(img_el.shapes) : img_el.shapes[i].imagedata}}}
    \ {""}

\* a reference is settled when its image is saved, or its failure is logged
Settled(ret, rid) ==
    IF Resolvable(rid) THEN rid \in LoggedRids(ret, "saved")
    ELSE rid \in LoggedRids(ret, "error")

\* C12: in one resolver call a reference that fails is logged and skipped,
\* every other reference of the element is still processed (the legacy
\* tier's when the modern tier resolved nothing), and the images collected
\* are returned.
C12_FailureSkipsOnlyItself ==
    img_ret # <<>> =>
        LET ret == img_ret[1]
        IN  /\ Len(ret.results) = Len(SavedEntries(ret))
            /\ \A rid \in ModernRefs : Settled(ret, rid)
            /\ (\A rid \in ModernRefs : ~Resolvable(rid)) =>
                  \A rid \in LegacyRefs : Settled(ret, rid)

\* C20: every image the resolver saves is written with the N bytes of its
\* payload under the extension the table gives its type T ('.png' for
\* image/png and for a type the table does not list), and its Image block
\* records file_size N and content_type T.
C20_PersistedAsDeclared ==
    img_ret # <<>> =>
        LET ret   == img_ret[1]
            saved == SavedEntries(ret)
        IN  /\ Len(saved) = Len(ret.results)
            /\ \A k \in 1..Len(saved) :
                  LET rel   == img_rels[RelIndex(img_rels, saved[k].rid)]
                      image == ret.results[k]
                      ext   == image.image_filename[3]
                  IN  /\ rel.content_type = "image/png" => ext = ".png"
                      /\ rel.content_type \in DOMAIN image_formats =>
                            ext = image_formats[rel.content_type]
                      /\ rel.content_type \notin DOMAIN image_formats => ext = ".png"
                      /\ saved[k].written.holds = "payload"
                      /\ saved[k].written.payload_len = rel.blob_len
                      /\ image.file_size = rel.blob_len
                      /\ image.content_type = rel.content_type
                      /\ image.image_path[2] = image.image_filename
                      /\ image.image_path \in DOMAIN ret.files

\* C20 witness: one call saved a PNG and an image of an unlisted type, the
\* second re-encoded by the repair pass after it was written
C20_Witness ==
    /\ img_ret # <<>>
    /\ \E i, j \in 1..Len(img_ret[1].results) :
          LET a == img_ret[1].results[i]
              b == img_ret[1].results[j]
          IN  /\ a.content_type = "image/png" /\ a.file_size = 3
              /\ b.content_type = "image/webp"
              /\ img_ret[1].files[b.image_path].holds = "reencoded"

\* ------------------------------------------------------------------------
\* Properties of extract_content
\* ------------------------------------------------------------------------

\* C13: for a path whose extension is not .docx the call fails at once with
\* the unsupported-format error: the file is never opened, the image
\* directory is never created and no block is emitted.
C13_UnsupportedFailsFirst ==
    Lower(Splitext(file_path)) # DocxExt =>
        /\ call_pc \in {"call", "unsupported"}
        /\ ~file_opened
        /\ ~output_dir
        /\ content_blocks = <<>>

\* C13 witness: the call on a .doc path has failed
C13_Witness ==
    /\ call_pc = "unsupported"
    /\ Splitext(file_path) = <<".", "d", "o", "c">>

\* ------------------------------------------------------------------------
\* Properties of the text-marker detector
\* ------------------------------------------------------------------------

Letters == {UpperCase[k] : k \in 1..Len(UpperCase)} \cup {LowerCase[k] : k \in 1..Len(LowerCase)}

\* the command token that starts at the backslash text[i]: the backslash
\* with the letters that follow it
CommandTokenAt(text, i) ==
    LET ends == {j \in i..Len(text) :
                    /\ \A n \in (i + 1)..j : text[n] \in Letters
                    /\ (j = Len(text) \/ text[j + 1] \notin Letters)}
    IN  SubSeq(text, i, CHOOSE j \in ends : TRUE)

\* the distinct tokens of the command vocabulary that occur in a text
VocabularyTokens(text) ==
    {CommandTokenAt(text, i) : i \in {k \in 1..Len(text) : text[k] = "\\"}}
    \cap {latex_commands[k] : k \in 1..Len(latex_commands)}

HasPairedDelimiters(text) ==
    \E i \in 1..Len(latex_markers) : MarkerPairFound(text, latex_markers[i])

\* C14: a text with no paired delimiters is detected exactly when at least
\* two distinct command tokens of the vocabulary occur in it; so a text whose
\* only command is \frac, \int or \infty is not detected.
C14_TwoDistinctCommands ==
    (latex_ret # <<>> /\ ~HasPairedDelimiters(latex_text)) =>
        (latex_ret[1] <=> Cardinality(VocabularyTokens(latex_text)) >= 2)

\* ------------------------------------------------------------------------
\* Properties of the rewrite stage
\* ------------------------------------------------------------------------

\* C15: rewrite_text makes at most max_retries API calls for one block; the
\* first attempt that yields a rewrite returns it; after max_retries failed
\* attempts the original text is returned; _process_text_block never raises,
\* and a block whose attempts all failed keeps its original content.
C15_BoundedRetriesFailOpen ==
    [][\A i \in Blocks :
         /\ tasks'[i].pc # "raised"
         /\ (tasks[i].pc = "rewrite_text" /\ tasks'[i] # tasks[i]) =>
              \* the calls of one block are numbered 0 .. max_retries - 1
              /\ tasks[i].attempt < max_retries
              /\ \/ /\ tasks'[i].pc = "store"
                    /\ tasks'[i].via = "rewrite"
                    /\ tasks'[i].ret \in Rewrites
                 \/ /\ tasks'[i].pc = "rewrite_text"
                    /\ tasks'[i].attempt = tasks[i].attempt + 1
                    /\ tasks'[i].attempt < max_retries
                 \/ /\ tasks'[i].pc = "store"
                    /\ tasks'[i].via = "exhausted"
                    /\ tasks[i].attempt = max_retries - 1
                    /\ tasks'[i].ret = original_texts[i]
         /\ (tasks'[i].pc = "collected" /\ tasks'[i].via = "exhausted") =>
              text_blocks'[i] = original_texts[i]
      ]_vars

\* rewrite_content reached its end with one block whose attempts all failed
\* and another that was rewritten
C15_Witness ==
    /\ rewrite_pc = "saved"
    /\ \E i, j \in Blocks :
         /\ tasks[i].pc = "collected"
         /\ tasks[i].via = "exhausted"
         /\ text_blocks[i] = original_texts[i]
         /\ tasks[j].via = "rewrite"
         /\ text_blocks[j] \in Rewrites

\* C16: a block content that the extractor's text-marker detector accepts
\* is returned unchanged by _process_text_block, with no API call and no
\* read or write of the cache.
C16_DetectedFormulaPassesThrough ==
    \A i \in Blocks :
        ContainsLatexFormula(original_texts[i]) =>
            /\ tasks[i].pc \in {"submitted", "done", "collected"}
            /\ tasks[i].pc # "submitted" =>
                 /\ tasks[i].via = "formula"
                 /\ tasks[i].ret = original_texts[i]
            /\ text_blocks[i] = original_texts[i]

\* C17: once the workers of a batch are done, every text that was not passed
\* through has one cache entry, every block with that text holds that
\* entry's value, and the entries under other keys are as they were loaded.
C17_RacingWorkersAgree ==
    (rewrite_pc = "batch" /\ BatchDone) =>
        /\ \A i \in Blocks :
             ~ContainsFormula(original_texts[i]) =>
                LET key == GetTextHash(original_texts[i])
                IN  /\ Cardinality({n \in 1..Len(cache.entries) :
                                      cache.entries[n].key = key}) = 1
                    /\ text_blocks[i] = CacheGet(cache, key)
                    /\ \A j \in Blocks :
                         original_texts[j] = original_texts[i] =>
                            text_blocks[j] = text_blocks[i]
        /\ cache.old = cache_file.old
        /\ \A n \in 1..Len(cache_file.entries) :
             LET loaded == cache_file.entries[n]
             IN  (\A i \in Blocks : GetTextHash(original_texts[i]) # loaded.key) =>
                    /\ HasKey(cache, loaded.key)
                    /\ CacheGet(cache, loaded.key) = loaded.value

\* the texts a run can add an entry for
RewrittenTexts == {original_texts[i] : i \in {j \in Blocks : ~ContainsFormula(original_texts[j])}}

\* C18 (as the code has it): the cache is within the limit when it is loaded
\* and after _save_cache; in between it grows by at most one entry for each
\* text rewritten; what _save_cache evicts are the oldest entries.
C18_BoundedWhenSaved ==
    /\ CacheLen(cache_file) <= CacheLimit
    /\ CacheLen(cache) <= CacheLimit + Cardinality(RewrittenTexts)
    /\ rewrite_pc = "saved" =>
         LET before == before_save[1]
         IN  /\ CacheLen(cache) <= CacheLimit
             /\ CacheLen(cache) =
                  IF CacheLen(before) > CacheLimit THEN CacheLimit ELSE CacheLen(before)
             /\ cache.old <= before.old
             /\ \E k \in 0..Len(before.entries) :
                  cache.entries = SubSeq(before.entries, k + 1, Len(before.entries))
             /\ cache.entries # before.entries => cache.old = 0

\* C18 (as claimed): the cache is within the limit in every state
C18_BoundedInEveryState == CacheLen(cache) <= CacheLimit

\* _save_cache found more than the limit and evicted, keeping the entry a
\* worker inserted
C18_Witness ==
    /\ rewrite_pc = "saved"
    /\ CacheLen(before_save[1]) > CacheLimit
    /\ CacheLen(cache) = CacheLimit
    /\ cache.old < before_save[1].old
    /\ \E i \in Blocks :
         /\ tasks[i].via = "rewrite"
         /\ HasKey(cache, GetTextHash(original_texts[i]))

\* ------------------------------------------------------------------------
\* Properties of the generated markdown
\* ------------------------------------------------------------------------

\* C19: in the markdown that is written, the renderings present follow the
\* order of the block list: the rendering of block i comes before that of
\* block j whenever i is before j, an image reference standing where its
\* Image block stands among the other blocks.
C19_RenderedInBlockOrder ==
    (md_pc = "returned" /\ md_file # <<>>) =>
        /\ md_file[1] = JoinPieces(markdown_content)
        /\ \A p, q \in 1..Len(markdown_content) :
             p < q => markdown_content[p].block < markdown_content[q].block

\* ------------------------------------------------------------------------
\* Properties of the resolver's tiers
\* ------------------------------------------------------------------------

\* the tier logged at least one reference it saved or failed on
TierTried(ret, tier) == \E k \in 1..Len(ret.log) : ret.log[k].tier = tier
TierSaved(ret, tier) ==
    \E k \in 1..Len(ret.log) : ret.log[k].tier = tier /\ ret.log[k].outcome = "saved"
TierRank(tier) == IF tier = "modern" THEN 1 ELSE IF tier = "legacy" THEN 2 ELSE 3

\* C22: in one _process_images call the tiers run in the order modern,
\* legacy, fallback, and a tier is attempted only if no earlier tier produced
\* an Image block.
C22_TiersShortCircuit ==
    \A c \in 1..Len(img_ret) :
        LET ret == img_ret[c]
        IN  /\ \A i, j \in 1..Len(ret.log) :
                  i < j => TierRank(ret.log[i].tier) <= TierRank(ret.log[j].tier)
            /\ TierSaved(ret, "modern") =>
                  ~TierTried(ret, "legacy") /\ ~TierTried(ret, "fallback")
            /\ TierSaved(ret, "legacy") => ~TierTried(ret, "fallback")
            /\ \A tier \in {"legacy", "fallback"} :
                  TierTried(ret, tier) =>
                     \A k \in 1..Len(ret.log) :
                        TierRank(ret.log[k].tier) < TierRank(tier) =>
                           ret.log[k].outcome # "saved"

\* the modern tier saved the picture rId1 of an element that also holds a
\* shape for rId2, which the part holds too, and nothing else was resolved
C22_Witness ==
    /\ img_ret # <<>>
    /\ TierSaved(img_ret[1], "modern")
    /\ \E k \in 1..Len(img_el.shapes) : img_el.shapes[k].r_id = "rId2"
    /\ Len(img_rels) > 1
    /\ LoggedRids(img_ret[1], "saved") = {"rId1"}

\* C23: within one call no relationship id is resolved twice, whatever the
\* element repeats; the set of seen ids starts empty in every call, so a
\* second paragraph with the same references has them resolved again.
C23_SeenOncePerCall ==
    /\ \A c \in 1..Len(img_ret) :
          LET saved == SavedEntries(img_ret[c])
          IN  /\ Len(saved) = Len(img_ret[c].results)
              /\ \A i, j \in 1..Len(saved) : saved[i].rid = saved[j].rid => i = j
    /\ Len(img_ret) = 2 =>
          /\ LoggedRids(img_ret[2], "saved") = LoggedRids(img_ret[1], "saved")
          /\ Len(img_ret[2].results) = Len(img_ret[1].results)
          /\ \A i, j \in 1..Len(img_ret[1].results) :
                img_ret[1].results[i].image_path # img_ret[2].results[j].image_path

\* an element with two pictures of rId1 was resolved twice: one image a call
C23_Witness ==
    /\ Len(img_ret) = 2
    /\ Len(FindAllDrawings(img_el)) = 2
    /\ ModernRefs = {"rId1"}
    /\ Len(img_ret[1].results) = 1
    /\ Len(img_ret[2].results) = 1

\* ------------------------------------------------------------------------
\* Properties of the delimiter rule
\* ------------------------------------------------------------------------

\* the positions, counted from 0, where marker occurs in text
Occurrences(text, marker) ==
    {i \in 0..(Len(text) - Len(marker)) : SubSeq(text, i + 1, i + Len(marker)) = marker}

\* some pair has a closing marker that starts at or after the end of an
\* opening marker
PairedSomewhere(text) ==
    \E k \in 1..Len(latex_markers) :
        \E o \in Occurrences(text, latex_markers[k][1]) :
            \E c \in Occurrences(text, latex_markers[k][2]) :
                c >= o + Len(latex_markers[k][1])

C26_LookupGivesVisitedChild ==
    /\ pc # "raised"
    /\ \A k \in ParagraphSteps : steps[k].paragraph = steps[k].child

\* ------------------------------------------------------------------------
\* Properties of what the cache holds
\* ------------------------------------------------------------------------

\* C27: the cache gets an entry only for a rewrite the API produced: when the
\* retries of a block are exhausted and the original text is returned, no
\* entry maps the hash of that text to the text itself.
C27_OnlyRewritesCached ==
    \A i \in Blocks :
        \A n \in 1..Len(cache.entries) :
            cache.entries[n].key = GetTextHash(original_texts[i]) =>
                cache.entries[n].value # original_texts[i]

\* ------------------------------------------------------------------------
\* Properties of the image copies
\* ------------------------------------------------------------------------

\* the copy tasks whose image reference is in the list
CopiesSucceeded ==
    {k \in 1..Len(copy_tasks) :
        \E n \in 1..Len(markdown_content) : markdown_content[n].block = copy_tasks[k].block}

\* the list after the references of the tasks in `succeeded` are inserted in
\* the order of copy_tasks, from task k on
RECURSIVE InsertedInTaskOrder(_, _, _)
InsertedInTaskOrder(content, k, succeeded) ==
    IF k > Len(copy_tasks) THEN content
    ELSE InsertedInTaskOrder(
            IF k \in succeeded
            THEN ListInsert(content, TaskIndex(copy_tasks, copy_tasks[k].filename),
                            Piece(ImageReference(copy_tasks[k].filename), copy_tasks[k].block))
            ELSE content,
            k + 1, succeeded)

\* C28: what _generate_markdown writes does not depend on the order in which
\* the copy tasks complete: it is what the completion order of copy_tasks
\* gives for the same successful copies.
C28_CopyOrderIrrelevant ==
    md_pc = "returned" =>
        markdown_content =
            InsertedInTaskOrder(
                SelectSeq(markdown_content, LAMBDA piece : md_blocks[piece.block].type # "image"),
                1, CopiesSucceeded)

\* ------------------------------------------------------------------------
\* Properties of the image repair
\* ------------------------------------------------------------------------

\* C24: the file at image_path exists throughout the call and holds either
\* the bytes originally written or the complete PNG re-encoding; after the
\* call it holds the original bytes when decoding succeeded (true returned)
\* or the repair failed (false returned), and the complete re-encoding when
\* decoding failed and the repair succeeded (true returned).
C24_OriginalOrCompletePng ==
    /\ fix_path \in DOMAIN fix_files
    /\ fix_files[fix_path] \in {Payload, CompletePng}
    /\ fix_pc # "returned" => fix_ret = <<>>
    /\ fix_pc = "returned" =>
         /\ fix_ret \in {<<TRUE>>, <<FALSE>>}
         /\ (fix_blob.opens /\ fix_blob.verifies) =>
               fix_ret = <<TRUE>> /\ fix_files[fix_path] = Payload
         /\ fix_ret = <<FALSE>> => fix_files[fix_path] = Payload
         /\ (fix_ret = <<TRUE>> /\ ~(fix_blob.opens /\ fix_blob.verifies)) =>
               /\ fix_files[fix_path] = CompletePng
               /\ DOMAIN fix_files = {fix_path}

\* a JPEG payload that failed verify() was re-encoded and renamed over the
\* image
C24_Witness ==
    /\ fix_pc = "returned"
    /\ fix_ret = <<TRUE>>
    /\ ~fix_blob.verifies
    /\ Splitext(fix_path) = <<".", "j", "p", "g">>
    /\ fix_files = (fix_path :> CompletePng)

\* ------------------------------------------------------------------------
\* Properties of the extraction of the rewrite from a response
\* ------------------------------------------------------------------------

\* `if result:` in rewrite_text
Truthy(value) ==
    \/ value.kind = "str" /\ value.s # <<>>
    \/ value.kind = "dict" /\ value.items # <<>>

\* C21: for a response text that does not contain the key 重写结果 neither
\* client's _extract_json_result returns a value that rewrite_text takes for
\* a rewrite.
C21_NoKeyNoRewrite ==
    (extract_ret # <<>> /\ ~Contains(response_text, ResultKey)) =>
        ~Truthy(extract_ret[2])

\* ------------------------------------------------------------------------
\* Properties of the batches and of the progress
\* ------------------------------------------------------------------------

\* the number of the batch a text block belongs to
BatchOf(p) == TextIndex(p) \div batch_size

RewriteStageOver ==
    rc_pc \in {"generate_docx", "generate_markdown", "finalize", "returned"}

\* C29: a text block is submitted at most once, and exactly once by the end
\* of the rewrite stage; a block of another type is never submitted and
\* keeps its content; no block of a batch is submitted while a task of an
\* earlier batch has not completed; after the rewrite stage the content of a
\* text block is the value returned for it, or its original content if its
\* task raised.
C29_EachTextBlockOnceInBatches ==
    /\ \A p \in 1..Len(rc_blocks) :
          IF rc_blocks[p].type # "text"
          THEN /\ submissions[p] = 0
               /\ futures[p] = "unsubmitted"
               /\ rc_blocks[p].content = Original(p)
          ELSE /\ submissions[p] = (IF futures[p] = "unsubmitted" THEN 0 ELSE 1)
               /\ rc_blocks[p].content =
                      (IF futures[p] = "returned" THEN Returned(p) ELSE Original(p))
               /\ RewriteStageOver => futures[p] \in {"returned", "raised"}
    /\ LET submitted  == {p \in TextBlocks : futures[p] # "unsubmitted"}
           incomplete == {q \in TextBlocks : futures[q] \in {"unsubmitted", "running"}}
       IN  \A p \in submitted : \A q \in incomplete : BatchOf(q) >= BatchOf(p)

\* a run of two batches came to its end; in each batch one task returned and
\* in the first another raised
C29_Witness ==
    /\ rc_pc = "returned"
    /\ Cardinality(TextBlocks) > batch_size
    /\ \E p, q, r \in 1..Len(rc_blocks) :
         /\ rc_blocks[p].type = "text" /\ BatchOf(p) = 0 /\ futures[p] = "returned"
         /\ rc_blocks[q].type = "text" /\ BatchOf(q) = 0 /\ futures[q] = "raised"
         /\ rc_blocks[r].type = "text" /\ BatchOf(r) = 1 /\ futures[r] = "returned"
         /\ submissions[p] = 1 /\ submissions[q] = 1 /\ submissions[r] = 1

\* the values passed to the callback are integers of 0..100 and never decrease
ProgressMonotone ==
    /\ \A n \in 1..Len(callbacks) : callbacks[n].total_progress \in 0..100
    /\ \A n \in 1..(Len(callbacks) - 1) :
         callbacks[n].total_progress <= callbacks[n + 1].total_progress

\* C30: the values passed to the progress callback are integers of 0..100
\* and never decrease, and 100 is passed only by the last update, of stage
\* finalize, after both documents were written and the cache was saved.
C30_ProgressToHundred ==
    /\ ProgressMonotone
    /\ \A n \in 1..Len(callbacks) :
         callbacks[n].total_progress = 100 =>
            /\ n = Len(callbacks)
            /\ callbacks[n].stage = "finalize"
            /\ rc_pc = "returned"
            /\ rc_done = {"docx", "markdown", "cache"}
====
